---- MODULE Spec2Model ----
(***************************************************************************)
(* Risk engine of pm_updown_bot_bundle: Kelly sizing (src/src/kelly.py),   *)
(* portfolio limit checks (src/src/var.py) and the stateful RiskManager    *)
(* (src/src/risk_manager.py).                                              *)
(*                                                                         *)
(* Numbers.  The program computes with Python floats.  The model computes  *)
(* with exact rationals [n |-> numerator, d |-> denominator > 0] in lowest *)
(* terms, so a comparison at a limit is decided by the exact value; the    *)
(* last-bit error of a float operation is not modelled.  round(x, 2) is    *)
(* modelled as rounding to the nearest hundredth, ties to even.            *)
(***************************************************************************)
EXTENDS Integers, Sequences, FiniteSets, TLC

VARIABLES
    bankroll,       \* RiskManager.bankroll
    peak_equity,    \* RiskManager.peak_equity
    positions,      \* RiskManager.positions, a list of Position
    daily_pnl,      \* RiskManager.daily_pnl
    closes,         \* number of close_position calls that found a position
    rm_config,      \* RiskManager.config, the BotConfig it was built with
    mc_result,      \* RiskManager._mc_result
    path_args,      \* the arguments two simulate_path calls are made with
    sim,            \* the locals of each of the two simulate_path calls
    draws,          \* the values a generator of the seed used has yielded
    heap,           \* the configuration objects of the process, by address
    roots,          \* the BotConfig objects a caller of the sweep holds
    sweep,          \* the locals of the sweep_kelly_fractions call
    kill_switch,    \* the kill-switch file exists
    engine_config,  \* Engine.config, a bot.config.BotConfig
    orders,         \* StubBackend.orders, in insertion order
    client_positions, \* StubBackend.positions
    history,        \* Engine.history
    last            \* the call made last: its name, arguments and result

\* The state of the RiskManager (src/src/risk_manager.py).
rm_vars == <<bankroll, peak_equity, positions, daily_pnl, closes, rm_config,
            mc_result>>

\* The state of simulate_path (src/src/monte_carlo.py).
path_vars == <<path_args, sim, draws>>

\* The state of sweep_kelly_fractions and of the objects it works on
\* (src/src/monte_carlo.py, src/src/config.py).
sweep_vars == <<heap, roots, sweep>>

\* The state of the micro-live engine (src/bot).
engine_vars == <<kill_switch, engine_config, orders, client_positions,
                history>>

\* The state of the components other than the RiskManager.
other_vars == <<path_vars, sweep_vars, engine_vars>>

vars == <<bankroll, peak_equity, positions, daily_pnl, closes, rm_config,
          mc_result, other_vars, last>>

(***************************************************************************)
(* Bounds of the model.                                                    *)
(***************************************************************************)
\* VaRConfig.max_concurrent_positions of the configuration under check
\* (the default is 10; the tests and callers may set any value).
MaxConcurrent == 2
\* close_position calls that book a P&L, per behaviour.
MaxCloses == 2
\* open_position is unconditional; the model stops opening above this length.
MaxOpen == MaxConcurrent + 1
\* The longest horizon_days handed to simulate_path.
MaxHorizonDays == 2

(***************************************************************************)
(* Exact arithmetic.                                                       *)
(***************************************************************************)
Abs(x) == IF x < 0 THEN -x ELSE x

RECURSIVE GCD(_, _)
GCD(a, b) == IF b = 0 THEN a ELSE GCD(b, a % b)

\* The rational n/d (d # 0) in lowest terms with a positive denominator.
Rat(n, d) ==
    LET s == IF d < 0 THEN -1 ELSE 1
        g == GCD(Abs(n), Abs(d))
    IN  [n |-> (s * n) \div g, d |-> (s * d) \div g]

Zero == Rat(0, 1)
One == Rat(1, 1)

\* Products of small operands are taken as they are; larger operands have
\* their common factors cancelled first, which keeps the products inside
\* TLC's integers.  The values are the same either way.
Small(a, b) ==
    /\ Abs(a.n) < 32768 /\ a.d < 32768
    /\ Abs(b.n) < 32768 /\ b.d < 32768

RAdd(a, b) ==
    IF Small(a, b) THEN Rat(a.n * b.d + b.n * a.d, a.d * b.d)
    ELSE LET g == GCD(a.d, b.d)
         IN  Rat(a.n * (b.d \div g) + b.n * (a.d \div g), (a.d \div g) * b.d)
RSub(a, b) ==
    IF Small(a, b) THEN Rat(a.n * b.d - b.n * a.d, a.d * b.d)
    ELSE LET g == GCD(a.d, b.d)
         IN  Rat(a.n * (b.d \div g) - b.n * (a.d \div g), (a.d \div g) * b.d)
RMul(a, b) ==
    IF Small(a, b) THEN Rat(a.n * b.n, a.d * b.d)
    ELSE LET g1 == GCD(Abs(a.n), b.d)
             g2 == GCD(Abs(b.n), a.d)
         IN  Rat((a.n \div g1) * (b.n \div g2),
                 (a.d \div g2) * (b.d \div g1))
\* a / b for b # 0; the callers model Python's ZeroDivisionError themselves.
RDiv(a, b) ==
    IF Small(a, b) THEN Rat(a.n * b.d, a.d * b.n)
    ELSE LET g1 == GCD(Abs(a.n), Abs(b.n))
             g2 == GCD(a.d, b.d)
         IN  Rat((a.n \div g1) * (b.d \div g2),
                 (a.d \div g2) * (b.n \div g1))
RNeg(a) == [n |-> -a.n, d |-> a.d]
RLt(a, b) ==
    IF Small(a, b) THEN a.n * b.d < b.n * a.d
    ELSE LET g == GCD(a.d, b.d)
         IN  a.n * (b.d \div g) < b.n * (a.d \div g)
RLe(a, b) ==
    IF Small(a, b) THEN a.n * b.d <= b.n * a.d
    ELSE LET g == GCD(a.d, b.d)
         IN  a.n * (b.d \div g) <= b.n * (a.d \div g)
RMax(a, b) == IF RLt(a, b) THEN b ELSE a
RMin(a, b) == IF RLt(b, a) THEN b ELSE a

\* round(x, 2): the nearest multiple of 1/100, a tie going to the even one.
Round2(x) ==
    LET t == IF Abs(x.n) < 1000000 THEN Rat(100 * x.n, x.d)
             ELSE LET g == GCD(100, x.d)
                  IN  Rat((100 \div g) * x.n, x.d \div g)
        f == t.n \div t.d
        r == t.n - f * t.d
        k == IF 2 * r < t.d THEN f
             ELSE IF 2 * r > t.d THEN f + 1
             ELSE IF f % 2 = 0 THEN f ELSE f + 1
    IN  Rat(k, 100)

(***************************************************************************)
(* Configuration (src/src/config.py).                                      *)
(***************************************************************************)
KellyConfig ==
    [ base_fraction    |-> Rat(25, 100),
      edge_tiers       |-> << <<Rat(5, 100), Rat(25, 100)>>,
                              <<Rat(10, 100), Rat(35, 100)>>,
                              <<Rat(15, 100), Rat(50, 100)>> >>,
      min_bet_fraction |-> Rat(5, 1000),
      max_bet_fraction |-> Rat(5, 100),
      min_edge         |-> Rat(5, 100),
      min_confidence   |-> Rat(60, 100) ]

MonteCarloConfig ==
    [ num_simulations |-> 10000,
      horizon_days    |-> 365,
      trades_per_day  |-> Rat(2, 1),
      seed            |-> 42 ]

VaRConfig ==
    [ max_portfolio_risk       |-> Rat(20, 100),
      max_concurrent_positions |-> MaxConcurrent,
      max_daily_loss_fraction  |-> Rat(2, 100),
      max_drawdown_fraction    |-> Rat(15, 100),
      stop_loss_fraction       |-> Rat(5, 100) ]

\* BotConfig(): the default sub-configurations and starting bankroll.
DEFAULT_CONFIG ==
    [ bankroll |-> Rat(5000, 1), kelly |-> KellyConfig, var |-> VaRConfig,
      monte_carlo |-> MonteCarloConfig ]

\* BotConfig(bankroll=b)
BotConfig(b) == [DEFAULT_CONFIG EXCEPT !.bankroll = b]

(***************************************************************************)
(* Kelly sizing (src/src/kelly.py).                                        *)
(***************************************************************************)
\* The branch of classic_kelly past its domain guard: f* = (p b - q) / b.
classic_kelly_formula(prob_win, odds_decimal) ==
    LET b == RSub(odds_decimal, One)
        q == RSub(One, prob_win)
        f_star == RDiv(RSub(RMul(prob_win, b), q), b)
    IN  RMax(f_star, Zero)

classic_kelly(prob_win, odds_decimal) ==
    IF RLe(prob_win, Zero) \/ RLe(One, prob_win) \/ RLe(odds_decimal, One)
    THEN Zero
    ELSE classic_kelly_formula(prob_win, odds_decimal)

edge_for_binary(prob_win, market_prob) == RSub(prob_win, market_prob)

\* A tier table (a dict) is the sequence of its (threshold, multiplier)
\* items in insertion order, the thresholds distinct.  Iterating the dict
\* yields its keys in that order.
dict_keys(tiers) == [i \in DOMAIN tiers |-> tiers[i][1]]

\* Mutant: the thresholds visited in insertion order.
sorted_as_inserted(keys) == keys

\* sorted(cfg.edge_tiers): the thresholds of a tier table in ascending order.
RECURSIVE sorted(_)
sorted(keys) ==
    IF keys = <<>> THEN <<>>
    ELSE LET lo == CHOOSE i \in DOMAIN keys :
                       \A j \in DOMAIN keys : RLe(keys[i], keys[j])
         IN  <<keys[lo]>> \o sorted(SubSeq(keys, 1, lo - 1)
                                     \o SubSeq(keys, lo + 1, Len(keys)))

\* cfg.edge_tiers[threshold]
TierValue(tiers, threshold) ==
    tiers[CHOOSE i \in DOMAIN tiers : tiers[i][1] = threshold][2]

\* The loop of _kelly_multiplier over the thresholds still to visit.
RECURSIVE kelly_multiplier_loop(_, _, _, _)
kelly_multiplier_loop(thresholds, edge, tiers, multiplier) ==
    IF thresholds = <<>> THEN multiplier
    ELSE kelly_multiplier_loop(
             Tail(thresholds), edge, tiers,
             IF RLe(Head(thresholds), edge)
             THEN TierValue(tiers, Head(thresholds))
             ELSE multiplier)

_kelly_multiplier(edge, cfg) ==
    kelly_multiplier_loop(sorted(dict_keys(cfg.edge_tiers)), edge,
                          cfg.edge_tiers, cfg.base_fraction)

KellyResult(raw, scaled, bet, edge, ev, mult) ==
    [ raw_fraction |-> raw, scaled_fraction |-> scaled, bet_size |-> bet,
      edge |-> edge, expected_value |-> ev, kelly_multiplier |-> mult ]

\* Mutant: the floor forgotten.
clamp_fraction_no_min(scaled_f, cfg) == RMin(scaled_f, cfg.max_bet_fraction)

\* Mutant: the ceiling forgotten.
clamp_fraction_no_max(scaled_f, cfg) == RMax(scaled_f, cfg.min_bet_fraction)

\* The clamp of size_bet: max(., min_bet_fraction) then min(., max_bet_fraction).
clamp_fraction(scaled_f, cfg) ==
    RMin(RMax(scaled_f, cfg.min_bet_fraction), cfg.max_bet_fraction)

\* Mutant: the confidence gate forgotten.
below_gates_edge_only(edge, prob_win, cfg) == RLt(edge, cfg.min_edge)

\* The no-trade gate of size_bet.
below_gates(edge, prob_win, cfg) ==
    RLt(edge, cfg.min_edge) \/ RLt(prob_win, cfg.min_confidence)

size_bet(prob_win, market_prob, bankroll_, config) ==
    LET cfg == config.kelly
        edge == edge_for_binary(prob_win, market_prob)
    IN  IF below_gates(edge, prob_win, cfg)
        THEN KellyResult(Zero, Zero, Zero, edge, Zero, Zero)
        ELSE LET odds_decimal == IF RLt(Zero, market_prob)
                                 THEN RDiv(One, market_prob) ELSE Zero
                 raw_f == classic_kelly(prob_win, odds_decimal)
                 multiplier == _kelly_multiplier(edge, cfg)
                 scaled_f == clamp_fraction(RMul(raw_f, multiplier), cfg)
                 bet_usd == Round2(RMul(scaled_f, bankroll_))
                 ev == RMul(edge, bet_usd)
             IN  KellyResult(raw_f, scaled_f, bet_usd, edge, ev, multiplier)

(***************************************************************************)
(* Monte Carlo validation (src/src/monte_carlo.py).                        *)
(***************************************************************************)
\* Python's None.
None == [ none |-> TRUE ]

\* No simulate_path call is under way.
PathIdle == path_args = None /\ sim = <<>> /\ draws = <<>>

\* No sweep is under way and no configuration object is tracked.
SweepIdle == heap = <<>> /\ roots = <<>> /\ sweep = [ status |-> "idle" ]

\* No engine was built.
EngineIdle ==
    /\ kill_switch = FALSE
    /\ engine_config = None
    /\ orders = <<>>
    /\ client_positions = <<>>
    /\ history = <<>>

\* The keyword arguments run_simulation hands to every simulate_path call.
path_arguments(win_rate, avg_edge, cfg) ==
    [ bankroll       |-> cfg.bankroll,
      win_rate       |-> win_rate,
      avg_edge       |-> avg_edge,
      kelly_fraction |-> cfg.kelly.base_fraction,
      trades_per_day |-> cfg.monte_carlo.trades_per_day,
      horizon_days   |-> cfg.monte_carlo.horizon_days,
      min_bet_frac   |-> cfg.kelly.min_bet_fraction,
      max_bet_frac   |-> cfg.kelly.max_bet_fraction ]

\* run_simulation.  The statistics of a SimulationResult are functions of
\* the paths, which are functions of the arguments of simulate_path and of
\* the seed; the model keeps those in place of the statistics.  A zero
\* path count or a zero bankroll divides by zero.
run_simulation(win_rate, avg_edge, cfg) ==
    IF cfg.monte_carlo.num_simulations = 0 \/ cfg.bankroll = Zero
    THEN [ exception |-> "ZeroDivisionError" ]
    ELSE [ exception |-> "",
           num_simulations |-> cfg.monte_carlo.num_simulations,
           horizon_days |-> cfg.monte_carlo.horizon_days,
           seed |-> cfg.monte_carlo.seed,
           paths |-> path_arguments(win_rate, avg_edge, cfg) ]

(***************************************************************************)
(* Positions and portfolio checks (src/src/var.py).                        *)
(***************************************************************************)
Position(market_id, side, entry_price, quantity, current_price, category) ==
    [ market_id |-> market_id, side |-> side, entry_price |-> entry_price,
      quantity |-> quantity, current_price |-> current_price,
      category |-> category ]

cost_basis(pos) == RMul(pos.quantity, pos.entry_price)

max_loss(pos) ==
    IF pos.side = "YES" THEN cost_basis(pos)
    ELSE RMul(pos.quantity, RSub(One, pos.entry_price))

\* sum(p.cost_basis for p in positions)
RECURSIVE sum_cost_basis(_)
sum_cost_basis(ps) ==
    IF ps = <<>> THEN Zero
    ELSE RAdd(cost_basis(Head(ps)), sum_cost_basis(Tail(ps)))

\* sum(p.max_loss for p in positions)
RECURSIVE sum_max_loss(_)
sum_max_loss(ps) ==
    IF ps = <<>> THEN Zero
    ELSE RAdd(max_loss(Head(ps)), sum_max_loss(Tail(ps)))

VaRResult(total_exposure, max_possible_loss, num_positions, breaches) ==
    [ exception |-> "", total_exposure |-> total_exposure,
      max_possible_loss |-> max_possible_loss,
      num_positions |-> num_positions, breaches |-> breaches ]

\* What a caller sees when parametric_var divides by a zero bankroll.
VaRRaised == [ exception |-> "ZeroDivisionError", total_exposure |-> Zero,
               max_possible_loss |-> Zero, num_positions |-> 0,
               breaches |-> <<>> ]

\* Mutant: one position more than the cap is no breach yet.
concurrent_breach_lenient(ps, cfg) ==
    IF Len(ps) > cfg.max_concurrent_positions + 1
    THEN <<"concurrent_positions">> ELSE <<>>

\* The breach of the position-count rule, as parametric_var appends it.
concurrent_breach(ps, cfg) ==
    IF Len(ps) > cfg.max_concurrent_positions
    THEN <<"concurrent_positions">> ELSE <<>>

\* Mutant: an exposure at the limit is a breach too.
portfolio_risk_breach_at_limit(total_exposure, bankroll_, cfg) ==
    IF RLe(cfg.max_portfolio_risk, RDiv(total_exposure, bankroll_))
    THEN <<"portfolio_risk">> ELSE <<>>

\* The breach of the exposure rule; bankroll_ # 0 here.
portfolio_risk_breach(total_exposure, bankroll_, cfg) ==
    IF RLt(cfg.max_portfolio_risk, RDiv(total_exposure, bankroll_))
    THEN <<"portfolio_risk">> ELSE <<>>

\* parametric_var.  var_usd and var_pct (a square root and a z-score) feed
\* no decision and are left out of the result; the prices of the positions
\* of the model lie in [0, 1], where math.sqrt does not fail.
parametric_var(ps, bankroll_, config) ==
    LET cfg == config.var
        total_exposure == sum_cost_basis(ps)
        max_loss_ == sum_max_loss(ps)
    IN  IF ps = <<>> THEN VaRResult(Zero, Zero, 0, <<>>)
        ELSE IF bankroll_ = Zero THEN VaRRaised
        ELSE VaRResult(Round2(total_exposure), Round2(max_loss_), Len(ps),
                       concurrent_breach(ps, cfg)
                       \o portfolio_risk_breach(total_exposure, bankroll_, cfg))

\* Mutant: the limit itself does not halt.
check_daily_loss_strict(daily_pnl_, bankroll_, config) ==
    LET cfg == config.var
    IN  IF RLe(bankroll_, Zero) THEN TRUE
        ELSE RLt(RDiv(daily_pnl_, bankroll_), RNeg(cfg.max_daily_loss_fraction))

check_daily_loss(daily_pnl_, bankroll_, config) ==
    LET cfg == config.var
    IN  IF RLe(bankroll_, Zero) THEN TRUE
        ELSE RLe(RDiv(daily_pnl_, bankroll_), RNeg(cfg.max_daily_loss_fraction))

\* Mutant: the limit itself does not halt.
check_drawdown_strict(current_equity, peak_equity_, config) ==
    LET cfg == config.var
    IN  IF RLe(peak_equity_, Zero) THEN TRUE
        ELSE RLt(cfg.max_drawdown_fraction,
                 RDiv(RSub(peak_equity_, current_equity), peak_equity_))

check_drawdown(current_equity, peak_equity_, config) ==
    LET cfg == config.var
    IN  IF RLe(peak_equity_, Zero) THEN TRUE
        ELSE RLe(cfg.max_drawdown_fraction,
                 RDiv(RSub(peak_equity_, current_equity), peak_equity_))

(***************************************************************************)
(* RiskManager (src/src/risk_manager.py).                                  *)
(***************************************************************************)
TradeDecision(action, reason, kelly, var, daily_loss_halt, drawdown_halt) ==
    [ exception |-> var.exception,
      action |-> IF var.exception = "" THEN action ELSE "NONE",
      reason |-> IF var.exception = "" THEN reason ELSE "",
      kelly |-> kelly, var |-> var, stop_loss_triggered |-> FALSE,
      daily_loss_halt |-> var.exception = "" /\ daily_loss_halt,
      drawdown_halt |-> var.exception = "" /\ drawdown_halt ]

\* RiskManager._current_var
_current_var == parametric_var(positions, bankroll, DEFAULT_CONFIG)

\* The hypothetical position of step 5 of evaluate_trade.
hypo_pos(kelly_res, market_prob, market_id, category) ==
    Position(IF market_id = "" THEN "PROPOSED" ELSE market_id, "YES",
             market_prob,
             IF RLt(Zero, market_prob)
             THEN RDiv(kelly_res.bet_size, market_prob) ELSE Zero,
             market_prob, category)

\* Steps 4 to 6 of evaluate_trade: no halt applies.
evaluate_sized(kelly_res, market_prob, market_id, category) ==
    IF RLe(kelly_res.bet_size, Zero)
    THEN TradeDecision("SKIP", <<"insufficient edge">>, kelly_res,
                       _current_var, FALSE, FALSE)
    ELSE LET var_res ==
                 parametric_var(
                     Append(positions,
                            hypo_pos(kelly_res, market_prob, market_id, category)),
                     bankroll, DEFAULT_CONFIG)
         IN  IF var_res.breaches # <<>>
             THEN TradeDecision("SKIP", <<"VaR breaches">> \o var_res.breaches,
                                kelly_res, var_res, FALSE, FALSE)
             ELSE TradeDecision("TRADE", <<"edge, bet">>, kelly_res, var_res,
                                FALSE, FALSE)

\* Mutant: the drawdown is measured from the bankroll the day started with.
evaluate_trade_day_drawdown(prob_win, market_prob, market_id, category) ==
    LET kelly_res == size_bet(prob_win, market_prob, bankroll, DEFAULT_CONFIG)
    IN  IF check_daily_loss(daily_pnl, bankroll, DEFAULT_CONFIG)
        THEN TradeDecision("HALT", <<"daily loss limit breached">>, kelly_res,
                           _current_var, TRUE, FALSE)
        ELSE IF check_drawdown(bankroll, RSub(bankroll, daily_pnl),
                               DEFAULT_CONFIG)
        THEN TradeDecision("HALT", <<"max drawdown breached">>, kelly_res,
                           _current_var, FALSE, TRUE)
        ELSE evaluate_sized(kelly_res, market_prob, market_id, category)

\* RiskManager.evaluate_trade: the decision returned, or the exception that
\* leaves the call (a TradeDecision whose exception field is not "").
evaluate_trade(prob_win, market_prob, market_id, category) ==
    LET kelly_res == size_bet(prob_win, market_prob, bankroll, DEFAULT_CONFIG)
    IN  IF check_daily_loss(daily_pnl, bankroll, DEFAULT_CONFIG)
        THEN TradeDecision("HALT", <<"daily loss limit breached">>, kelly_res,
                           _current_var, TRUE, FALSE)
        ELSE IF check_drawdown(bankroll, peak_equity, DEFAULT_CONFIG)
        THEN TradeDecision("HALT", <<"max drawdown breached">>, kelly_res,
                           _current_var, FALSE, TRUE)
        ELSE evaluate_sized(kelly_res, market_prob, market_id, category)

\* Mutant: the first open position, whatever its market_id.
FirstMatch_any(ps, market_id) == IF ps # <<>> THEN 1 ELSE 0

\* next((p for p in self.positions if p.market_id == market_id), None):
\* the index of the first match, 0 for None.
FirstMatch(ps, market_id) ==
    IF \E i \in 1..Len(ps) : ps[i].market_id = market_id
    THEN CHOOSE i \in 1..Len(ps) :
             /\ ps[i].market_id = market_id
             /\ \A j \in 1..(i - 1) : ps[j].market_id # market_id
    ELSE 0

\* The realised P&L close_position computes for pos.
realised_pnl(pos, settlement_price) ==
    IF pos.side = "YES"
    THEN RMul(pos.quantity, RSub(settlement_price, pos.entry_price))
    ELSE RMul(pos.quantity, RSub(pos.entry_price, settlement_price))

\* [p for p in self.positions if p.market_id != market_id]
RECURSIVE remove_market(_, _)
remove_market(ps, market_id) ==
    IF ps = <<>> THEN <<>>
    ELSE IF Head(ps).market_id # market_id
         THEN <<Head(ps)>> \o remove_market(Tail(ps), market_id)
         ELSE remove_market(Tail(ps), market_id)

\* Mutant: the bankroll floored at zero.
bankroll_after_clamped(bankroll_, pnl) == RMax(RAdd(bankroll_, pnl), Zero)

\* Mutant: the bankroll takes the P&L rounded to cents, as it is returned.
bankroll_after_rounded(bankroll_, pnl) == RAdd(bankroll_, Round2(pnl))

\* self.bankroll += pnl
bankroll_after(bankroll_, pnl) == RAdd(bankroll_, pnl)

\* Mutant: the peak follows the bankroll down.
new_peak_always(new_bankroll, peak_equity_) == new_bankroll

\* Mutant: the peak is never raised.
new_peak_stale(new_bankroll, peak_equity_) == peak_equity_

\* The peak update of close_position.
new_peak(new_bankroll, peak_equity_) ==
    IF RLt(peak_equity_, new_bankroll) THEN new_bankroll ELSE peak_equity_

\* The value close_position returns for a realised P&L.
close_return(pnl) == Round2(pnl)

(***************************************************************************)
(* Inputs of the model.                                                    *)
(***************************************************************************)
\* BotConfig.bankroll values the manager is built with.
StartBankrolls == { Rat(6, 1), Rat(30, 1), Rat(40, 1), Rat(306, 1) }
\* prob_win and market_prob arguments, in and out of (0, 1).
ProbWins == { Rat(55, 100), Rat(65, 100), Rat(1, 1) }
MarketProbs == { Rat(0, 1), Rat(40, 100), Rat(62, 100) }
MarketIds == { "M1", "M2" }
\* Positions a caller opens: 6 / 0.62 contracts (a 6.00 stake at 0.62, the
\* quantity evaluate_trade derives as bet_size / market_prob), YES on M1 at
\* 0.62 or NO on M2 at 0.38.  Either loses 6 or wins 114/31 = 3.677...
PositionInputs ==
    { Position("M1", "YES", Rat(62, 100), RDiv(Rat(6, 1), Rat(62, 100)),
               Rat(62, 100), ""),
      Position("M2", "NO", Rat(38, 100), RDiv(Rat(6, 1), Rat(62, 100)),
               Rat(38, 100), "") }
SettlementPrices == { Rat(0, 1), Rat(1, 1) }
\* The defaults of validate_strategy.
StrategyWinRates == { Rat(58, 100) }
StrategyEdges == { Rat(8, 100) }

(***************************************************************************)
(* The state machine.                                                      *)
(***************************************************************************)
\* RiskManager.__init__
Init ==
    /\ rm_config \in { BotConfig(b) : b \in StartBankrolls }
    /\ bankroll = rm_config.bankroll
    /\ peak_equity = bankroll
    /\ positions = <<>>
    /\ daily_pnl = Zero
    /\ closes = 0
    /\ mc_result = None
    /\ PathIdle /\ SweepIdle /\ EngineIdle
    /\ last = [ op |-> "__init__" ]

\* Mutant: the hypothetical position of the VaR check stays in the open set.
EvaluateTrade_keeps_hypo ==
    \E prob_win \in ProbWins, market_prob \in MarketProbs :
        LET decision == evaluate_trade(prob_win, market_prob, "", "")
        IN  /\ last' = [ op |-> "evaluate_trade", prob_win |-> prob_win,
                         market_prob |-> market_prob, decision |-> decision ]
            /\ positions' =
                   IF /\ decision.action \in {"TRADE", "SKIP"}
                      /\ RLt(Zero, decision.kelly.bet_size)
                      /\ Len(positions) < MaxOpen
                   THEN Append(positions,
                               hypo_pos(decision.kelly, market_prob, "", ""))
                   ELSE positions
            /\ UNCHANGED <<bankroll, peak_equity, daily_pnl, closes,
                         rm_config, mc_result, other_vars>>

EvaluateTrade ==
    \E prob_win \in ProbWins, market_prob \in MarketProbs :
        /\ last' = [ op |-> "evaluate_trade", prob_win |-> prob_win,
                     market_prob |-> market_prob,
                     decision |-> evaluate_trade(prob_win, market_prob, "", "") ]
        /\ UNCHANGED <<bankroll, peak_equity, positions, daily_pnl, closes,
                     rm_config, mc_result, other_vars>>

\* Mutant: a position whose market_id is already open replaces the open one.
OpenPosition_replacing ==
    \E position \in PositionInputs :
        /\ Len(positions) < MaxOpen
        /\ positions' =
               IF \E i \in DOMAIN positions :
                      positions[i].market_id = position.market_id
               THEN [ i \in DOMAIN positions |->
                          IF positions[i].market_id = position.market_id
                          THEN position ELSE positions[i] ]
               ELSE Append(positions, position)
        /\ last' = [ op |-> "open_position", position |-> position ]
        /\ UNCHANGED <<bankroll, peak_equity, daily_pnl, closes,
                     rm_config, mc_result, other_vars>>

OpenPosition ==
    \E position \in PositionInputs :
        /\ Len(positions) < MaxOpen
        /\ positions' = Append(positions, position)
        /\ last' = [ op |-> "open_position", position |-> position ]
        /\ UNCHANGED <<bankroll, peak_equity, daily_pnl, closes,
                     rm_config, mc_result, other_vars>>

\* close_position when no position matches: returns 0.0.
CloseMissing(market_id, settlement_price) ==
    /\ FirstMatch(positions, market_id) = 0
    /\ last' = [ op |-> "close_position", market_id |-> market_id,
                 settlement_price |-> settlement_price, found |-> FALSE,
                 ret |-> Zero ]
    /\ UNCHANGED <<bankroll, peak_equity, positions, daily_pnl, closes,
                     rm_config, mc_result, other_vars>>

\* close_position when a position matches.
CloseFound(market_id, settlement_price) ==
    /\ FirstMatch(positions, market_id) # 0
    /\ closes < MaxCloses
    /\ LET pos == positions[FirstMatch(positions, market_id)]
           pnl == realised_pnl(pos, settlement_price)
       IN  /\ bankroll' = bankroll_after(bankroll, pnl)
           /\ daily_pnl' = RAdd(daily_pnl, pnl)
           /\ peak_equity' = new_peak(bankroll', peak_equity)
           /\ positions' = remove_market(positions, market_id)
           /\ last' = [ op |-> "close_position", market_id |-> market_id,
                        settlement_price |-> settlement_price, found |-> TRUE,
                        pos |-> pos, ret |-> close_return(pnl) ]
    /\ closes' = closes + 1
    /\ UNCHANGED <<rm_config, mc_result, other_vars>>

ClosePosition ==
    \E market_id \in MarketIds \cup {"NOPE"},
       settlement_price \in SettlementPrices :
        \/ CloseMissing(market_id, settlement_price)
        \/ CloseFound(market_id, settlement_price)

\* Mutant: the reset also drops the peak to the bankroll.
ResetDailyPnl_and_peak ==
    /\ daily_pnl' = Zero
    /\ peak_equity' = bankroll
    /\ last' = [ op |-> "reset_daily_pnl" ]
    /\ UNCHANGED <<bankroll, positions, closes,
                   rm_config, mc_result, other_vars>>

ResetDailyPnl ==
    /\ daily_pnl' = Zero
    /\ last' = [ op |-> "reset_daily_pnl" ]
    /\ UNCHANGED <<bankroll, peak_equity, positions, closes,
                 rm_config, mc_result, other_vars>>

\* validate_strategy: the simulation runs on the configuration the manager
\* was built with and its result is cached.
ValidateStrategy ==
    \E win_rate \in StrategyWinRates, avg_edge \in StrategyEdges :
        /\ mc_result' = run_simulation(win_rate, avg_edge, rm_config)
        /\ last' = [ op |-> "validate_strategy", win_rate |-> win_rate,
                     avg_edge |-> avg_edge, ret |-> mc_result' ]
        /\ UNCHANGED <<bankroll, peak_equity, positions, daily_pnl, closes,
                       rm_config, other_vars>>

Next ==
    \/ EvaluateTrade \/ OpenPosition \/ ClosePosition \/ ResetDailyPnl
    \/ ValidateStrategy

Spec == Init /\ [][Next]_vars

(***************************************************************************)
(* size_bet as a pure function, over a wider set of arguments.             *)
(***************************************************************************)
\* Tier tables: the default one inserted in descending order, one whose
\* multipliers do not grow with the thresholds, one without the low tiers,
\* and the empty one.
EdgeTierTables ==
    { << <<Rat(15, 100), Rat(50, 100)>>, <<Rat(10, 100), Rat(35, 100)>>,
         <<Rat(5, 100), Rat(25, 100)>> >>,
      << <<Rat(15, 100), Rat(10, 100)>>, <<Rat(5, 100), Rat(40, 100)>>,
         <<Rat(10, 100), Rat(30, 100)>> >>,
      << <<Rat(15, 100), Rat(50, 100)>>, <<Rat(10, 100), Rat(35, 100)>> >>,
      << >> }
KellyConfigs ==
    { KellyConfig,
      [KellyConfig EXCEPT !.max_bet_fraction = Rat(3, 100)],
      [KellyConfig EXCEPT !.min_bet_fraction = Rat(1, 100)],
      [KellyConfig EXCEPT !.min_bet_fraction = Rat(4, 100)],
      [KellyConfig EXCEPT !.min_bet_fraction = Rat(5, 100),
                          !.max_bet_fraction = Rat(3, 100)] }
    \cup { [KellyConfig EXCEPT !.edge_tiers = t] : t \in EdgeTierTables }
KellyProbWins == ProbWins \cup { Rat(72, 100) }
KellyMarketProbs == MarketProbs \cup { Rat(60, 100) }
KellyBankrolls ==
    StartBankrolls \cup { Rat(0, 1), Rat(-6, 1), Rat(2503, 100), Rat(1, 10) }

\* size_bet keeps nothing between calls: one call per behaviour.
SizeBet ==
    \E prob_win \in KellyProbWins, market_prob \in KellyMarketProbs,
       b \in KellyBankrolls, k \in KellyConfigs :
        /\ last.op = "__init__"
        /\ last' = [ op |-> "size_bet", prob_win |-> prob_win,
                     market_prob |-> market_prob, bankroll |-> b, cfg |-> k,
                     result |-> size_bet(prob_win, market_prob, b,
                                         [DEFAULT_CONFIG EXCEPT !.kelly = k]) ]
        /\ UNCHANGED <<bankroll, peak_equity, positions, daily_pnl, closes,
                     rm_config, mc_result, other_vars>>

KellySpec == Init /\ [][SizeBet]_vars

(***************************************************************************)
(* Properties.  Each limit is restated here from the configuration, with   *)
(* the division multiplied out, and not through the operators above.       *)
(***************************************************************************)
IsEval == last.op = "evaluate_trade"

\* bankroll > 0 and daily_pnl / bankroll <= -max_daily_loss_fraction
DailyLossBreached ==
    /\ RLt(Zero, bankroll)
    /\ RLe(daily_pnl,
           RNeg(RMul(VaRConfig.max_daily_loss_fraction, bankroll)))

\* The daily-loss halt condition: the breach, or a bankroll <= 0.
DailyLossHaltCondition == RLe(bankroll, Zero) \/ DailyLossBreached

\* peak_equity > 0 and (peak_equity - bankroll) / peak_equity >= max_drawdown_fraction
DrawdownBreached ==
    /\ RLt(Zero, peak_equity)
    /\ RLe(RMul(VaRConfig.max_drawdown_fraction, peak_equity),
           RSub(peak_equity, bankroll))

\* The proposal passes the edge and confidence gates of the default config.
GatesPass(prob_win, market_prob) ==
    /\ RLe(KellyConfig.min_edge, RSub(prob_win, market_prob))
    /\ RLe(KellyConfig.min_confidence, prob_win)

InUnitInterval(x) == RLt(Zero, x) /\ RLt(x, One)

\* x is a whole number of cents, the nearest to y.
NearestCent(x, y) ==
    /\ 100 % x.d = 0
    /\ RLe(RSub(x, y), Rat(1, 200))
    /\ RLe(RSub(y, x), Rat(1, 200))

\* C1: whenever bankroll > 0 and daily_pnl / bankroll <= -max_daily_loss_fraction
\* (the limit included), evaluate_trade returns HALT with daily_loss_halt set
\* and drawdown_halt clear, for every proposal and every set of open
\* positions, also when the drawdown limit is breached as well.
C1_DailyLossHalts ==
    (IsEval /\ DailyLossBreached) =>
        /\ last.decision.exception = ""
        /\ last.decision.action = "HALT"
        /\ last.decision.daily_loss_halt
        /\ ~last.decision.drawdown_halt

\* A proposal with a sufficient edge is halted for the daily loss while the
\* drawdown limit is breached too and a position is open.
C1_Witness ==
    /\ IsEval /\ DailyLossBreached /\ DrawdownBreached
    /\ positions # <<>>
    /\ GatesPass(last.prob_win, last.market_prob)
    /\ last.decision.action = "HALT"
    /\ last.decision.daily_loss_halt

\* C2: when the daily-loss halt condition does not hold and
\* (peak_equity - bankroll) / peak_equity >= max_drawdown_fraction (the limit
\* included), evaluate_trade returns HALT with drawdown_halt set and
\* daily_loss_halt clear, whatever the edge: the drawdown check comes after
\* the daily-loss check and before the Kelly bet-size check.
C2_DrawdownHalts ==
    (IsEval /\ ~DailyLossHaltCondition /\ DrawdownBreached) =>
        /\ last.decision.exception = ""
        /\ last.decision.action = "HALT"
        /\ last.decision.drawdown_halt
        /\ ~last.decision.daily_loss_halt

\* A proposal that Kelly sizes at zero is halted for the drawdown, not
\* skipped.
C2_Witness ==
    /\ IsEval /\ ~DailyLossHaltCondition /\ DrawdownBreached
    /\ last.decision.kelly.bet_size = Zero
    /\ last.decision.action = "HALT"
    /\ last.decision.drawdown_halt

\* Sum of quantity * entry_price over the first k open positions.
RECURSIVE ExposureUpTo(_)
ExposureUpTo(k) ==
    IF k = 0 THEN Zero
    ELSE RAdd(ExposureUpTo(k - 1),
              RMul(positions[k].quantity, positions[k].entry_price))

\* Sum of the cost bases of the open positions.
OpenExposure == ExposureUpTo(Len(positions))

\* C3: evaluate_trade returns TRADE only if, with the proposed trade counted
\* as one more position of cost basis bet_size, the position count is
\* <= max_concurrent_positions and (exposure + bet_size) / bankroll is
\* <= max_portfolio_risk.
C3_TradeOnlyWithinLimits ==
    (IsEval /\ last.decision.action = "TRADE") =>
        /\ Len(positions) + 1 <= VaRConfig.max_concurrent_positions
        /\ RLe(RAdd(OpenExposure, last.decision.kelly.bet_size),
               RMul(VaRConfig.max_portfolio_risk, bankroll))

\* C3, for a market_prob inside (0, 1): the same statement.
C3_TradeWithinLimitsValidPrice ==
    (IsEval /\ InUnitInterval(last.market_prob)) => C3_TradeOnlyWithinLimits

\* C3, second part: with max_concurrent_positions positions open, no
\* proposal is a TRADE, and one that is sized and not halted is a SKIP
\* naming concurrent_positions.
C3_FullBookSkips ==
    (IsEval /\ Len(positions) >= VaRConfig.max_concurrent_positions) =>
        /\ last.decision.action # "TRADE"
        /\ (/\ ~DailyLossHaltCondition /\ ~DrawdownBreached
            /\ RLt(Zero, last.decision.kelly.bet_size))
           => /\ last.decision.action = "SKIP"
              /\ \E i \in 1..Len(last.decision.reason) :
                     last.decision.reason[i] = "concurrent_positions"

\* C4: with bankroll <= 0 (0 included) and any open positions, evaluate_trade
\* completes and returns HALT with daily_loss_halt set.
C4_NonPositiveBankrollHalts ==
    (IsEval /\ RLe(bankroll, Zero)) =>
        /\ last.decision.exception = ""
        /\ last.decision.action = "HALT"
        /\ last.decision.daily_loss_halt

\* C4, for a bankroll < 0 or an empty book: the same statement.
C4_HaltsUnlessZeroWithPositions ==
    (IsEval /\ (RLt(bankroll, Zero) \/ positions = <<>>)) =>
        C4_NonPositiveBankrollHalts

ClosedUnknown ==
    /\ last'.op = "close_position"
    /\ \A i \in 1..Len(positions) : positions[i].market_id # last'.market_id

\* C6: close_position with a market_id that matches no open position returns
\* 0.0 and leaves bankroll, daily_pnl, peak_equity and the open positions as
\* they were.
C6_CloseUnknownIsNoOp ==
    [][ClosedUnknown =>
           /\ last'.ret = Zero
           /\ bankroll' = bankroll
           /\ daily_pnl' = daily_pnl
           /\ peak_equity' = peak_equity
           /\ positions' = positions]_vars

\* An unknown market_id was closed while positions were open and P&L had
\* been booked.
C6_Witness ==
    /\ last.op = "close_position"
    /\ last.market_id = "NOPE"
    /\ positions # <<>>
    /\ daily_pnl # Zero

\* The call just made is close_position, and a position open before it has
\* its market_id.
ClosedKnown ==
    /\ last'.op = "close_position"
    /\ \E i \in 1..Len(positions) : positions[i].market_id = last'.market_id

\* The first position open before the call that has the closed market_id.
ClosedIndex ==
    CHOOSE i \in 1..Len(positions) :
        /\ positions[i].market_id = last'.market_id
        /\ \A j \in 1..(i - 1) : positions[j].market_id # last'.market_id

\* quantity * (s - entry) for YES, quantity * (entry - s) otherwise.
ClaimedPnl(p, s) ==
    IF p.side = "YES"
    THEN RMul(p.quantity, RSub(s, p.entry_price))
    ELSE RMul(p.quantity, RSub(p.entry_price, s))

\* The bookkeeping of C7 for a realised pnl.
BooksPnl(pnl) ==
    /\ bankroll' = RAdd(bankroll, pnl)
    /\ daily_pnl' = RAdd(daily_pnl, pnl)
    /\ peak_equity' = IF RLt(peak_equity, bankroll') THEN bankroll'
                       ELSE peak_equity

\* C7 as claimed: close_position on an open position p adds
\* pnl = quantity * (s - entry) (YES) or quantity * (entry - s) (otherwise)
\* to bankroll and daily_pnl, raises peak_equity to the new bankroll iff that
\* exceeds it, and returns the pnl.
C7_CloseReturnsPnl ==
    [][ClosedKnown =>
           LET pnl == ClaimedPnl(positions[ClosedIndex], last'.settlement_price)
           IN  BooksPnl(pnl) /\ last'.ret = pnl]_vars

\* C7 as amended: the same bookkeeping, applied to the first open position
\* with the market_id, and the value returned is the pnl rounded to 2
\* decimals.
C7_CloseBooksPnlReturnsRounded ==
    [][ClosedKnown =>
           LET pnl == ClaimedPnl(positions[ClosedIndex], last'.settlement_price)
           IN  BooksPnl(pnl) /\ NearestCent(last'.ret, pnl)]_vars

\* A NO position was closed at a gain that left the bankroll under the
\* peak, and the value returned differs from the P&L booked.
C7_Witness ==
    /\ last.op = "close_position" /\ last.found
    /\ last.pos.side = "NO"
    /\ RLt(Zero, daily_pnl) /\ RLt(bankroll, peak_equity)
    /\ last.ret # ClaimedPnl(last.pos, last.settlement_price)

\* ps without its i-th element.
RemoveAt(ps, i) == SubSeq(ps, 1, i - 1) \o SubSeq(ps, i + 1, Len(ps))

\* C8: a successful close_position removes exactly the one position whose
\* P&L it books: the open count drops by exactly 1 and every other open
\* position stays open.
C8_CloseRemovesExactlyOne ==
    [][ClosedKnown =>
           /\ Len(positions') = Len(positions) - 1
           /\ positions' = RemoveAt(positions, ClosedIndex)]_vars

\* C8, with no other open position on the closed market_id: the same
\* statement.
C8_CloseRemovesOneIfUnique ==
    [][(/\ ClosedKnown
        /\ Cardinality({i \in 1..Len(positions) :
                            positions[i].market_id = last'.market_id}) = 1)
       => /\ Len(positions') = Len(positions) - 1
          /\ positions' = RemoveAt(positions, ClosedIndex)]_vars

IsSizeBet == last.op = "size_bet"

\* C9: for a Kelly configuration with min_bet_fraction <= max_bet_fraction,
\* a size_bet result with bet_size > 0 has
\* min_bet_fraction <= scaled_fraction <= max_bet_fraction, and bet_size is
\* scaled_fraction * bankroll rounded to 2 decimals.
C9_SizedBetWithinClamp ==
    (/\ IsSizeBet
     /\ RLe(last.cfg.min_bet_fraction, last.cfg.max_bet_fraction)
     /\ RLt(Zero, last.result.bet_size)) =>
        /\ RLe(last.cfg.min_bet_fraction, last.result.scaled_fraction)
        /\ RLe(last.result.scaled_fraction, last.cfg.max_bet_fraction)
        /\ NearestCent(last.result.bet_size,
                       RMul(last.result.scaled_fraction, last.bankroll))

\* A raw Kelly fraction above the ceiling of a non-default configuration
\* was cut to it, and the bet is not the unrounded product.
C9_Witness ==
    /\ IsSizeBet
    /\ last.cfg # KellyConfig
    /\ RLe(last.cfg.min_bet_fraction, last.cfg.max_bet_fraction)
    /\ RLt(Zero, last.result.bet_size)
    /\ RLt(last.cfg.max_bet_fraction,
           RMul(last.result.raw_fraction, last.result.kelly_multiplier))
    /\ last.result.scaled_fraction = last.cfg.max_bet_fraction
    /\ last.result.bet_size
           # RMul(last.result.scaled_fraction, last.bankroll)

\* C10: when edge = prob_win - market_prob is below min_edge, or prob_win is
\* below min_confidence, the size_bet result has raw_fraction,
\* scaled_fraction, bet_size and expected_value 0 and edge
\* prob_win - market_prob; and evaluate_trade, absent a halt, returns SKIP.
C10_BelowGatesIsZeroAndSkip ==
    (IsEval /\ ~GatesPass(last.prob_win, last.market_prob)) =>
        /\ last.decision.kelly.raw_fraction = Zero
        /\ last.decision.kelly.scaled_fraction = Zero
        /\ last.decision.kelly.bet_size = Zero
        /\ last.decision.kelly.expected_value = Zero
        /\ last.decision.kelly.edge = RSub(last.prob_win, last.market_prob)
        /\ (~DailyLossHaltCondition /\ ~DrawdownBreached)
               => last.decision.action = "SKIP"

\* A proposal with an edge above min_edge and a prob_win below
\* min_confidence was skipped with a zero size, no halt applying.
C10_Witness ==
    /\ IsEval
    /\ RLe(KellyConfig.min_edge, RSub(last.prob_win, last.market_prob))
    /\ RLt(last.prob_win, KellyConfig.min_confidence)
    /\ ~DailyLossHaltCondition /\ ~DrawdownBreached
    /\ last.decision.action = "SKIP"
    /\ last.decision.kelly.bet_size = Zero
    /\ last.decision.kelly.edge # Zero

SizeBetGatesPass ==
    /\ RLe(last.cfg.min_edge, RSub(last.prob_win, last.market_prob))
    /\ RLe(last.cfg.min_confidence, last.prob_win)

\* raw_fraction * kelly_multiplier of the size_bet result.
ScaledBeforeClamp ==
    RMul(last.result.raw_fraction, last.result.kelly_multiplier)

\* max(raw_fraction * multiplier, min_bet_fraction) capped at
\* max_bet_fraction.
FlooredThenCapped ==
    LET floored == IF RLt(ScaledBeforeClamp, last.cfg.min_bet_fraction)
                   THEN last.cfg.min_bet_fraction ELSE ScaledBeforeClamp
    IN  IF RLt(last.cfg.max_bet_fraction, floored)
        THEN last.cfg.max_bet_fraction ELSE floored

HalfCent == Rat(1, 200)

\* C11 as claimed: when the edge and confidence gates pass, scaled_fraction
\* is max(raw_fraction * multiplier, min_bet_fraction) capped at
\* max_bet_fraction, at least min(min_bet_fraction, max_bet_fraction), and
\* with bankroll > 0 the bet is sized (bet_size > 0), not skipped.
C11_FloorAlwaysSizes ==
    (IsSizeBet /\ SizeBetGatesPass) =>
        /\ last.result.scaled_fraction = FlooredThenCapped
        /\ RLe(RMin(last.cfg.min_bet_fraction, last.cfg.max_bet_fraction),
               last.result.scaled_fraction)
        /\ RLt(Zero, last.bankroll) => RLt(Zero, last.result.bet_size)

\* C11: when the edge and confidence gates pass, scaled_fraction is
\* max(raw_fraction * multiplier, min_bet_fraction) capped at
\* max_bet_fraction, at least min(min_bet_fraction, max_bet_fraction); the
\* bet is scaled_fraction * bankroll rounded to 2 decimals, so with
\* bankroll > 0 it is positive when that product exceeds half a cent and 0
\* when the product is below half a cent.
C11_FloorSizesAboveHalfCent ==
    (IsSizeBet /\ SizeBetGatesPass) =>
        /\ last.result.scaled_fraction = FlooredThenCapped
        /\ RLe(RMin(last.cfg.min_bet_fraction, last.cfg.max_bet_fraction),
               last.result.scaled_fraction)
        /\ NearestCent(last.result.bet_size,
                       RMul(last.result.scaled_fraction, last.bankroll))
        /\ RLt(HalfCent, RMul(last.result.scaled_fraction, last.bankroll))
               => RLt(Zero, last.result.bet_size)
        /\ RLt(RMul(last.result.scaled_fraction, last.bankroll), HalfCent)
               => ~RLt(Zero, last.result.bet_size)

\* A proposal with valid probabilities passed the gates with a scaled Kelly
\* fraction below the floor, and was sized at the floor with a positive bet.
C11_Witness ==
    /\ IsSizeBet /\ SizeBetGatesPass
    /\ InUnitInterval(last.prob_win) /\ InUnitInterval(last.market_prob)
    /\ RLt(ScaledBeforeClamp, last.cfg.min_bet_fraction)
    /\ RLe(last.cfg.min_bet_fraction, last.cfg.max_bet_fraction)
    /\ last.result.scaled_fraction = last.cfg.min_bet_fraction
    /\ RLt(Zero, last.bankroll)
    /\ RLt(Zero, last.result.bet_size)

\* The (threshold, multiplier) items of a tier table, whatever their order.
TierItems(tiers) == { tiers[i] : i \in DOMAIN tiers }

\* The items of the table of the last size_bet call whose threshold does not
\* exceed the edge of the result.
ReachedTiers ==
    { t \in TierItems(last.cfg.edge_tiers) : RLe(t[1], last.result.edge) }

\* C12: when size_bet sizes a proposal (the gates pass), the multiplier it
\* uses is the one mapped to the largest threshold <= edge, and
\* base_fraction when the edge is below every threshold; a table with the
\* same items inserted in another order gives the same multiplier.
C12_TierMultiplierSelection ==
    (IsSizeBet /\ SizeBetGatesPass) =>
        /\ ReachedTiers = {}
               => last.result.kelly_multiplier = last.cfg.base_fraction
        /\ ReachedTiers # {}
               => \E t \in ReachedTiers :
                      /\ \A u \in ReachedTiers : RLe(u[1], t[1])
                      /\ last.result.kelly_multiplier = t[2]
        /\ \A k \in KellyConfigs :
               TierItems(k.edge_tiers) = TierItems(last.cfg.edge_tiers)
                   => _kelly_multiplier(last.result.edge, k)
                          = last.result.kelly_multiplier

\* A table inserted out of ascending order, two of its thresholds at or
\* below the edge, gave the multiplier of the larger of them, which differs
\* from the multiplier of the item inserted last.
C12_Witness ==
    /\ IsSizeBet /\ SizeBetGatesPass
    /\ Len(last.cfg.edge_tiers) >= 2
    /\ RLt(last.cfg.edge_tiers[2][1], last.cfg.edge_tiers[1][1])
    /\ Cardinality(ReachedTiers) >= 2
    /\ last.result.kelly_multiplier
           # last.cfg.edge_tiers[Len(last.cfg.edge_tiers)][2]
    /\ last.result.kelly_multiplier # last.cfg.base_fraction

\* The edge of a sized proposal was below every threshold of a non-empty
\* table, and base_fraction was used.
C12_WitnessBelowEveryTier ==
    /\ IsSizeBet /\ SizeBetGatesPass
    /\ last.cfg.edge_tiers # <<>>
    /\ ReachedTiers = {}
    /\ last.result.kelly_multiplier = last.cfg.base_fraction

(***************************************************************************)
(* multi_outcome_kelly (src/src/kelly.py) as a pure function.              *)
(***************************************************************************)
\* The most outcomes of a market handed to multi_outcome_kelly.
MaxOutcomes == 2

\* The raw Kelly fraction of one leg.
raw_leg(p, mp) ==
    IF RLe(mp, Zero) \/ RLe(One, mp) THEN Zero
    ELSE RMax(classic_kelly(p, RDiv(One, mp)), Zero)

\* sum(raw)
RECURSIVE sum_floats(_)
sum_floats(xs) ==
    IF xs = <<>> THEN Zero ELSE RAdd(Head(xs), sum_floats(Tail(xs)))

\* Mutant: the legs never scaled down.
alloc_scale_none(fraction, total) == One

\* scale = min(fraction / total, 1.0)
alloc_scale(fraction, total) == RMin(RDiv(fraction, total), One)

multi_outcome_kelly(probabilities, market_prices, bankroll_, fraction) ==
    LET n == Len(probabilities)
        raw == [i \in 1..n |-> raw_leg(probabilities[i], market_prices[i])]
        total == sum_floats(raw)
    IN  IF n # Len(market_prices)
        THEN [ exception |-> "ValueError", allocations |-> <<>> ]
        ELSE IF RLe(total, Zero)
        THEN [ exception |-> "", allocations |-> [i \in 1..n |-> Zero] ]
        ELSE [ exception |-> "",
               allocations |->
                   [i \in 1..n |->
                       Round2(RMul(RMul(raw[i], alloc_scale(fraction, total)),
                                   bankroll_))] ]

\* The legs of a market: (probability, market price) of each outcome.
OutcomeProbs == { Rat(50, 100), Rat(90, 100) }
OutcomePrices == { Rat(0, 1), Rat(25, 100), Rat(40, 100), Rat(1, 1) }
Legs == OutcomeProbs \X OutcomePrices
Markets == UNION { [1..n -> Legs] : n \in 0..MaxOutcomes }
ExtraPrices == { <<>>, <<Rat(40, 100)>> }
MultiBankrolls == { Rat(0, 1), Rat(2503, 100), Rat(1000, 1) }
MultiFractions == { Rat(0, 1), Rat(25, 100), Rat(2, 1) }

\* One call of multi_outcome_kelly; it keeps nothing between calls.
MultiOutcomeKelly ==
    \E market \in Markets, extra \in ExtraPrices,
       b \in MultiBankrolls, fraction \in MultiFractions :
        LET probabilities == [i \in DOMAIN market |-> market[i][1]]
            market_prices == [i \in DOMAIN market |-> market[i][2]] \o extra
        IN  /\ last.op = "__init__"
            /\ last' = [ op |-> "multi_outcome_kelly",
                         probabilities |-> probabilities,
                         market_prices |-> market_prices,
                         bankroll |-> b, fraction |-> fraction,
                         result |-> multi_outcome_kelly(
                                        probabilities, market_prices,
                                        b, fraction) ]
            /\ UNCHANGED <<bankroll, peak_equity, positions, daily_pnl,
                           closes, rm_config, mc_result, other_vars>>

MultiKellySpec == Init /\ [][MultiOutcomeKelly]_vars

IsMultiKelly == last.op = "multi_outcome_kelly"

\* The sum of the first k allocations of the last multi_outcome_kelly call.
RECURSIVE AllocatedUpTo(_)
AllocatedUpTo(k) ==
    IF k = 0 THEN Zero
    ELSE RAdd(AllocatedUpTo(k - 1), last.result.allocations[k])

\* C13: for probabilities and market prices of equal length, bankroll >= 0
\* and fraction >= 0, multi_outcome_kelly returns one allocation per
\* outcome, each >= 0, 0 for a leg whose market price is <= 0 or >= 1, and
\* their sum is at most fraction * bankroll plus half a cent per leg.
C13_MultiOutcomeWithinFraction ==
    (/\ IsMultiKelly
     /\ Len(last.probabilities) = Len(last.market_prices)
     /\ RLe(Zero, last.bankroll) /\ RLe(Zero, last.fraction)) =>
        /\ last.result.exception = ""
        /\ Len(last.result.allocations) = Len(last.probabilities)
        /\ \A i \in DOMAIN last.result.allocations :
               /\ RLe(Zero, last.result.allocations[i])
               /\ (RLe(last.market_prices[i], Zero)
                       \/ RLe(One, last.market_prices[i]))
                      => last.result.allocations[i] = Zero
        /\ RLe(AllocatedUpTo(Len(last.result.allocations)),
               RAdd(RMul(last.fraction, last.bankroll),
                    RMul(Rat(Len(last.result.allocations), 1), HalfCent)))

\* Two legs with an edge were scaled down to the fraction, and the rounded
\* allocations add up to more than fraction * bankroll.
C13_Witness ==
    /\ IsMultiKelly
    /\ Len(last.result.allocations) = 2
    /\ \A i \in 1..2 : RLt(Zero, last.result.allocations[i])
    /\ RLt(last.fraction,
           RAdd(raw_leg(last.probabilities[1], last.market_prices[1]),
                raw_leg(last.probabilities[2], last.market_prices[2])))
    /\ RLt(RMul(last.fraction, last.bankroll), AllocatedUpTo(2))

(***************************************************************************)
(* parametric_var (src/src/var.py) as a pure function.                     *)
(***************************************************************************)
VaRConfigs ==
    { VaRConfig, [VaRConfig EXCEPT !.max_portfolio_risk = Rat(10, 100)] }
VaRPositionInputs ==
    PositionInputs
        \cup { Position("M3", "YES", Rat(50, 100), Rat(40, 1), Rat(50, 100), "") }
PositionLists == UNION { [1..n -> VaRPositionInputs] : n \in 0..MaxOpen }
VaRBankrolls == StartBankrolls \cup { Rat(0, 1), Rat(-6, 1) }

\* One call of parametric_var; it keeps nothing between calls.
ParametricVar ==
    \E ps \in PositionLists, b \in VaRBankrolls, v \in VaRConfigs :
        /\ last.op = "__init__"
        /\ last' = [ op |-> "parametric_var", positions |-> ps,
                     bankroll |-> b, cfg |-> v,
                     result |-> parametric_var(
                                    ps, b, [DEFAULT_CONFIG EXCEPT !.var = v]) ]
        /\ UNCHANGED <<bankroll, peak_equity, positions, daily_pnl, closes,
                     rm_config, mc_result, other_vars>>

VaRSpec == Init /\ [][ParametricVar]_vars

IsVar == last.op = "parametric_var"

\* The cost bases (quantity * entry_price) of the first k positions handed
\* to the last parametric_var call, added up.
RECURSIVE CostBasesUpTo(_)
CostBasesUpTo(k) ==
    IF k = 0 THEN Zero
    ELSE RAdd(CostBasesUpTo(k - 1),
              RMul(last.positions[k].quantity, last.positions[k].entry_price))

HasBreach(name) ==
    \E i \in DOMAIN last.result.breaches : last.result.breaches[i] = name

\* C14: for a bankroll > 0, the breaches of parametric_var hold a
\* concurrent_positions entry iff len(positions) > max_concurrent_positions,
\* a portfolio_risk entry iff (sum of cost bases) / bankroll >
\* max_portfolio_risk, and nothing else; an empty position list gives a
\* zero result without breaches.
C14_BreachDetection ==
    (IsVar /\ RLt(Zero, last.bankroll)) =>
        /\ last.result.exception = ""
        /\ HasBreach("concurrent_positions")
               <=> Len(last.positions) > last.cfg.max_concurrent_positions
        /\ HasBreach("portfolio_risk")
               <=> RLt(RMul(last.cfg.max_portfolio_risk, last.bankroll),
                       CostBasesUpTo(Len(last.positions)))
        /\ \A i \in DOMAIN last.result.breaches :
               last.result.breaches[i]
                   \in {"concurrent_positions", "portfolio_risk"}
        /\ Len(last.result.breaches) <= 2
        /\ last.positions = <<>>
               => /\ last.result.total_exposure = Zero
                  /\ last.result.max_possible_loss = Zero
                  /\ last.result.num_positions = 0
                  /\ last.result.breaches = <<>>

\* A portfolio with an exposure exactly at the limit and a position count
\* within the limit has no breach.
C14_WitnessAtLimit ==
    /\ IsVar /\ RLt(Zero, last.bankroll)
    /\ last.positions # <<>>
    /\ CostBasesUpTo(Len(last.positions))
           = RMul(last.cfg.max_portfolio_risk, last.bankroll)
    /\ last.result.breaches = <<>>

\* A portfolio over both limits has both entries.
C14_Witness ==
    /\ IsVar /\ RLt(Zero, last.bankroll)
    /\ Len(last.positions) > last.cfg.max_concurrent_positions
    /\ HasBreach("concurrent_positions") /\ HasBreach("portfolio_risk")

(***************************************************************************)
(* Frame properties of the RiskManager.                                    *)
(***************************************************************************)
\* C15: bankroll changes only in a close_position call that finds a
\* position, and then by exactly the realised P&L of that position, without
\* a floor at zero; open_position, evaluate_trade, reset_daily_pnl and
\* validate_strategy leave it unchanged.
C15_BankrollOnlyByClose ==
    [][/\ bankroll' # bankroll => ClosedKnown
       /\ ClosedKnown =>
              bankroll' = RAdd(bankroll,
                               ClaimedPnl(positions[ClosedIndex],
                                          last'.settlement_price))
       /\ last'.op \in {"open_position", "evaluate_trade", "reset_daily_pnl",
                        "validate_strategy"}
              => bankroll' = bankroll]_vars

\* A loss was realised that exceeded the bankroll, which is now negative,
\* with a position still open whose cost was never debited.
C15_Witness ==
    /\ last.op = "close_position" /\ last.found
    /\ RLt(bankroll, Zero)
    /\ RLe(Zero, RSub(bankroll, ClaimedPnl(last.pos, last.settlement_price)))
    /\ positions # <<>>

\* A strategy was validated after P&L had been booked.
C15_WitnessValidate ==
    /\ last.op = "validate_strategy"
    /\ mc_result # None
    /\ bankroll # rm_config.bankroll

\* C16: reset_daily_pnl sets daily_pnl to 0 in any state and leaves
\* bankroll, peak_equity and the open positions unchanged; a second reset
\* changes nothing.
C16_ResetZeroesDailyPnlOnly ==
    [][last'.op = "reset_daily_pnl" =>
           /\ daily_pnl' = Zero
           /\ bankroll' = bankroll
           /\ peak_equity' = peak_equity
           /\ positions' = positions
           /\ last.op = "reset_daily_pnl"
                  => <<bankroll, peak_equity, positions, daily_pnl>>'
                         = <<bankroll, peak_equity, positions, daily_pnl>>]_vars

\* The daily P&L was reset from a loss, with a position open and the
\* bankroll under its peak.
C16_Witness ==
    /\ last.op = "reset_daily_pnl"
    /\ daily_pnl = Zero
    /\ RLt(bankroll, peak_equity)
    /\ positions # <<>>
    /\ closes > 0

(***************************************************************************)
(* simulate_path (src/src/monte_carlo.py): two calls made with the same    *)
(* arguments, each stepping through its loop on its own.                   *)
(***************************************************************************)
\* A RiskManager built with the default configuration, nothing booked.
RiskManagerIdle ==
    /\ rm_config = DEFAULT_CONFIG
    /\ bankroll = rm_config.bankroll
    /\ peak_equity = bankroll
    /\ positions = <<>>
    /\ daily_pnl = Zero
    /\ closes = 0
    /\ mc_result = None

Calls == {1, 2}

\* random.Random(seed)
Seeded(seed) == [ seed |-> seed ]

\* int(x): truncation toward zero.
int(x) == IF x.n >= 0 THEN x.n \div x.d ELSE -((-x.n) \div x.d)

total_trades(args) ==
    int(RMul(args.trades_per_day, Rat(args.horizon_days, 1)))

\* market_prob = max(win_rate - avg_edge, 0.01)
path_market_prob(args) ==
    RMax(RSub(args.win_rate, args.avg_edge), Rat(1, 100))

\* b = odds - 1.0
path_b(args) == RSub(RDiv(One, path_market_prob(args)), One)

path_raw_f(args) ==
    LET b == path_b(args)
        q == RSub(One, args.win_rate)
        raw_f == IF RLt(Zero, b)
                 THEN RDiv(RSub(RMul(args.win_rate, b), q), b) ELSE Zero
    IN  RMax(raw_f, Zero)

\* Mutant: the ceiling forgotten.
path_scaled_f_no_max(args) ==
    RMax(RMul(path_raw_f(args), args.kelly_fraction), args.min_bet_frac)

path_scaled_f(args) ==
    RMin(RMax(RMul(path_raw_f(args), args.kelly_fraction), args.min_bet_frac),
         args.max_bet_frac)

\* random.Random(): a generator seeded from the system.
Fresh == [ fresh |-> TRUE ]

\* Mutant: a generator handed in is dropped for a fresh one.
rng_or_fresh_always_fresh(rng) == Fresh

\* rng or random.Random()
rng_or_fresh(rng) == IF rng = None THEN Fresh ELSE rng

\* The nearest whole number, ties to even.
RoundInt(x) ==
    LET f == x.n \div x.d
        r == x.n - f * x.d
        k == IF 2 * r < x.d THEN f
             ELSE IF 2 * r > x.d THEN f + 1
             ELSE IF f % 2 = 0 THEN f ELSE f + 1
    IN  Rat(k, 1)

\* Mutant: no product is rounded.
float_mul_exact(a, b, args) == RMul(a, b)

\* The float product a * b of an amount of money.  When the bankroll is
\* subnormal the amounts are counted in multiples of the smallest positive
\* float, 2^-1074; every float of that range is a whole multiple, and the
\* product is rounded to the nearest one, ties to even.  Elsewhere the
\* last-bit error of the product is not modelled.
float_mul(a, b, args) ==
    IF args.subnormal THEN RoundInt(RMul(a, b)) ELSE RMul(a, b)

\* The locals of simulate_path before its loop.  done counts the loop bodies
\* run and outcomes lists the branch each of them took.
path_start(args) ==
    [ equity |-> args.bankroll, peak |-> args.bankroll, max_dd |-> Zero,
      done |-> 0, outcomes |-> <<>>, status |-> "running" ]

\* One loop body past the equity guard, with u the value of rng.random().
trade(loc, args, u) ==
    LET bet == float_mul(path_scaled_f(args), loc.equity, args)
        won == RLt(u, args.win_rate)
        equity == IF won
                  THEN RAdd(loc.equity, float_mul(bet, path_b(args), args))
                  ELSE RSub(loc.equity, bet)
        peak == IF RLt(loc.peak, equity) THEN equity ELSE loc.peak
        dd == IF RLt(Zero, peak) THEN RDiv(RSub(peak, equity), peak) ELSE Zero
        max_dd == IF RLt(loc.max_dd, dd) THEN dd ELSE loc.max_dd
    IN  [ equity |-> equity, peak |-> peak, max_dd |-> max_dd,
          done |-> loc.done + 1,
          outcomes |-> Append(loc.outcomes, IF won THEN "win" ELSE "loss"),
          status |-> "running" ]

PathBankrolls == { Rat(1, 1), Rat(0, 1), Rat(-1, 1) }
\* Subnormal bankrolls, in multiples of 2^-1074: 5e-324 and 2e-323.
SubnormalBankrolls == { Rat(1, 1), Rat(4, 1) }
PathWinRates == { Rat(1, 2), Rat(3, 4) }
PathEdges == { Rat(1, 4), Rat(-1, 2) }
PathKellyFractions == { Rat(1, 4), Rat(4, 1) }
PathTradesPerDay == { Rat(5, 4) }
\* (min_bet_frac, max_bet_frac): in order and below 1 (twice), out of
\* order, and with a ceiling of 1.
PathBetFracs ==
    { <<Rat(1, 8), Rat(1, 4)>>, <<Rat(1, 2), Rat(3, 4)>>,
      <<Rat(1, 4), Rat(1, 8)>>, <<Rat(1, 8), Rat(1, 1)>> }
PathRngs == { Seeded(42), None }
\* Values of rng.random().
Draws == { Rat(0, 1), Rat(1, 2), Rat(9, 10) }

\* The bankrolls with the range they lie in.
PathBankrollInputs ==
    { <<b, FALSE>> : b \in PathBankrolls }
        \cup { <<b, TRUE>> : b \in SubnormalBankrolls }

PathArguments ==
    { [ bankroll |-> b[1], subnormal |-> b[2], win_rate |-> w, avg_edge |-> e,
        kelly_fraction |-> k, trades_per_day |-> t, horizon_days |-> h,
        min_bet_frac |-> f[1], max_bet_frac |-> f[2], rng |-> r ] :
        b \in PathBankrollInputs, w \in PathWinRates, e \in PathEdges,
        k \in PathKellyFractions, t \in PathTradesPerDay,
        h \in 0..MaxHorizonDays, f \in PathBetFracs, r \in PathRngs }

\* Both calls are entered with the same arguments.
PathInit ==
    /\ RiskManagerIdle /\ SweepIdle /\ EngineIdle
    /\ path_args \in PathArguments
    /\ sim = [c \in Calls |-> path_start(path_args)]
    /\ draws = <<>>
    /\ last = [ op |-> "simulate_path" ]

\* The value the generator of call c yields at its next random(): the next
\* value of the stream of the seed when a seeded generator was handed in
\* (the same stream for both calls), any value for a fresh generator.
NextDraw(c, u) ==
    IF rng_or_fresh(path_args.rng) # Fresh
    THEN IF sim[c].done < Len(draws)
         THEN u = draws[sim[c].done + 1] /\ draws' = draws
         ELSE draws' = Append(draws, u)
    ELSE draws' = draws

\* One pass of the loop of call c.
Trade(c) ==
    /\ sim[c].status = "running"
    /\ sim[c].done < total_trades(path_args)
    /\ RLt(Zero, sim[c].equity)
    /\ \E u \in Draws :
           /\ NextDraw(c, u)
           /\ sim' = [sim EXCEPT ![c] = trade(sim[c], path_args, u)]
    /\ UNCHANGED <<rm_vars, sweep_vars, engine_vars, path_args, last>>

\* The loop of call c ends, by exhaustion or by the equity guard, and
\* (equity, max_dd) is returned.
Return(c) ==
    /\ sim[c].status = "running"
    /\ sim[c].done >= total_trades(path_args) \/ RLe(sim[c].equity, Zero)
    /\ sim' = [sim EXCEPT ![c].status = "returned"]
    /\ UNCHANGED <<rm_vars, sweep_vars, engine_vars, path_args, draws, last>>

PathNext == \E c \in Calls : Trade(c) \/ Return(c)

PathSpec == PathInit /\ [][PathNext]_vars

\* Both calls were handed a generator of the same seed.
SameSeed == path_args.rng # None

BothReturned == \A c \in Calls : sim[c].status = "returned"

\* C17: two simulate_path calls with the same arguments and generators of
\* the same seed take the same win/loss branch at every trade, have the
\* same locals after the same number of trades, and return the same
\* (final_bankroll, max_drawdown).
C17_SameSeedSameResult ==
    SameSeed =>
        /\ \A i \in 1..Len(sim[1].outcomes) :
               i <= Len(sim[2].outcomes)
                   => sim[1].outcomes[i] = sim[2].outcomes[i]
        /\ sim[1].done = sim[2].done
               => /\ sim[1].equity = sim[2].equity
                  /\ sim[1].max_dd = sim[2].max_dd
        /\ BothReturned
               => /\ sim[1].equity = sim[2].equity
                  /\ sim[1].max_dd = sim[2].max_dd

\* Two seeded calls returned after the same wins and losses, with a
\* drawdown on the way.
C17_Witness ==
    /\ SameSeed /\ BothReturned
    /\ sim[1].done >= 2 /\ sim[2].done >= 2
    /\ \E i, j \in 1..Len(sim[1].outcomes) :
           sim[1].outcomes[i] = "win" /\ sim[1].outcomes[j] = "loss"
    /\ RLt(Zero, sim[1].max_dd)
    /\ sim[1].equity = sim[2].equity

\* Without a generator handed in, two calls with the same arguments
\* returned different bankrolls.
C17_WitnessFreshDiffers ==
    /\ ~SameSeed /\ BothReturned
    /\ sim[1].equity # sim[2].equity

\* The whole number n with n <= trades_per_day * horizon_days < n + 1.
WholeTrades ==
    LET x == RMul(path_args.trades_per_day, Rat(path_args.horizon_days, 1))
    IN  CHOOSE n \in 0..(x.n + 1) :
            RLe(Rat(n, 1), x) /\ RLt(x, Rat(n + 1, 1))

PathPrecondition ==
    /\ RLt(Zero, path_args.bankroll)
    /\ RLt(Zero, path_args.win_rate) /\ RLt(path_args.win_rate, One)
    /\ RLe(Zero, path_args.min_bet_frac)
    /\ RLe(path_args.min_bet_frac, path_args.max_bet_frac)
    /\ RLt(path_args.max_bet_frac, One)

C18_Witness ==
    /\ PathPrecondition /\ ~path_args.subnormal
    /\ sim[1].status = "returned"
    /\ sim[1].done = 2
    /\ RLt(path_args.bankroll, sim[1].peak)
    /\ Rat(sim[1].done, 1)
           # RMul(path_args.trades_per_day, Rat(path_args.horizon_days, 1))
    /\ RLt(sim[1].equity, sim[1].peak)
    /\ RLt(Zero, sim[1].max_dd)

\* With a ceiling of 1 a loss took the whole equity and the call returned
\* before its last trade.
C18_WitnessEarlyExit ==
    /\ ~PathPrecondition
    /\ RLt(Zero, path_args.bankroll)
    /\ sim[1].status = "returned"
    /\ sim[1].done > 0 /\ sim[1].done < WholeTrades
    /\ sim[1].equity = Zero

\* A call with a negative bankroll returned without a trade.
C18_WitnessNoTrade ==
    /\ RLt(path_args.bankroll, Zero)
    /\ path_args.horizon_days > 0
    /\ sim[1].status = "returned"
    /\ sim[1].done = 0

(***************************************************************************)
(* sweep_kelly_fractions and BotConfig.copy (src/src/monte_carlo.py,       *)
(* src/src/config.py).  Configurations are objects: a BotConfig refers to  *)
(* its KellyConfig, VaRConfig and MonteCarloConfig, and the KellyConfig to *)
(* its edge_tiers dict.  The heap holds the objects by address, and an     *)
(* attribute that refers to an object holds its address.  The              *)
(* market_filter sub-configuration, which no function of the risk engine   *)
(* reads, is left out as in BotConfig above.                               *)
(***************************************************************************)
\* Candidate fractions in one sweep.
MaxFractions == 2

\* BotConfig.copy() calls a caller makes outside the sweep.
MaxCopies == 1

\* The objects of BotConfig(...) with the attribute values of the record
\* value, allocated at the end of heap h; the BotConfig is the last one.
new_BotConfig(h, value) ==
    LET n == Len(h)
    IN  h \o << [ class |-> "dict", items |-> value.kelly.edge_tiers ],
                [ class |-> "KellyConfig",
                  attrs |-> [value.kelly EXCEPT !.edge_tiers = n + 1] ],
                [ class |-> "VaRConfig", attrs |-> value.var ],
                [ class |-> "MonteCarloConfig", attrs |-> value.monte_carlo ],
                [ class |-> "BotConfig",
                  attrs |-> [ bankroll |-> value.bankroll, kelly |-> n + 2,
                              var |-> n + 3, monte_carlo |-> n + 4 ] ] >>

\* BotConfig(bankroll=b, kelly=k) with k an existing KellyConfig object.
new_BotConfig_with_kelly(h, value, k) ==
    LET n == Len(h)
    IN  h \o << [ class |-> "VaRConfig", attrs |-> value.var ],
                [ class |-> "MonteCarloConfig", attrs |-> value.monte_carlo ],
                [ class |-> "BotConfig",
                  attrs |-> [ bankroll |-> value.bankroll, kelly |-> k,
                              var |-> n + 1, monte_carlo |-> n + 2 ] ] >>

\* What the attributes of the BotConfig at address a read as: the record
\* the functions of the risk engine are handed.
config_value(h, a) ==
    LET bot == h[a].attrs
        kelly == h[bot.kelly].attrs
    IN  [ bankroll |-> bot.bankroll,
          kelly |-> [kelly EXCEPT !.edge_tiers = h[kelly.edge_tiers].items],
          var |-> h[bot.var].attrs,
          monte_carlo |-> h[bot.monte_carlo].attrs ]

\* Mutant: copy.copy, a new BotConfig sharing the sub-configurations.
deepcopy_shallow(h, a) == [ heap |-> Append(h, h[a]), addr |-> Len(h) + 1 ]

\* copy.deepcopy of the BotConfig at address a: a new object for the
\* BotConfig and for every object reachable from it; numbers are immutable
\* and shared.
deepcopy(h, a) ==
    LET bot == h[a].attrs
        kelly == h[bot.kelly].attrs
        n == Len(h)
    IN  [ heap |-> h \o << h[kelly.edge_tiers],
                           [ class |-> "KellyConfig",
                             attrs |-> [kelly EXCEPT !.edge_tiers = n + 1] ],
                           h[bot.var],
                           h[bot.monte_carlo],
                           [ class |-> "BotConfig",
                             attrs |-> [bot EXCEPT !.kelly = n + 2,
                                                   !.var = n + 3,
                                                   !.monte_carlo = n + 4] ] >>,
          addr |-> n + 5 ]

\* BotConfig.copy
copy(h, a) == deepcopy(h, a)

\* c.kelly.base_fraction = frac
set_base_fraction(h, c, frac) ==
    [h EXCEPT ![h[c].attrs.kelly].attrs.base_fraction = frac]

\* c.bankroll = b
set_bankroll(h, c, b) == [h EXCEPT ![c].attrs.bankroll = b]

\* c.kelly.edge_tiers[threshold] = multiplier: the value of an existing key
\* is replaced in place, a new key is inserted last.
set_edge_tier(h, c, threshold, multiplier) ==
    LET d == h[h[c].attrs.kelly].attrs.edge_tiers
        items == h[d].items
    IN  [h EXCEPT ![d].items =
            IF \E i \in DOMAIN items : items[i][1] = threshold
            THEN [i \in DOMAIN items |->
                     IF items[i][1] = threshold
                     THEN <<threshold, multiplier>> ELSE items[i]]
            ELSE Append(items, <<threshold, multiplier>>)]

\* A reference to the object at address a, as an argument of a call.
Ref(a) == [ ref |-> a ]

\* config or DEFAULT_CONFIG, as an address; a BotConfig object is never
\* falsy.  The DEFAULT_CONFIG singleton is the first root.
config_or_default(config) == IF config = None THEN roots[1] ELSE config.ref

SweepFractions == { Rat(10, 100), Rat(50, 100) }
FractionLists == UNION { [1..n -> SweepFractions] : n \in 0..MaxFractions }

\* The configurations a caller builds: a bankroll of its own, and one with
\* bankroll 0, on which run_simulation divides by zero.
CallerConfigs == { BotConfig(Rat(30, 1)), BotConfig(Rat(0, 1)) }

\* The module is imported (DEFAULT_CONFIG = BotConfig()) and a caller has
\* built a configuration, with a KellyConfig of its own or with the one of
\* DEFAULT_CONFIG.
SweepInit ==
    /\ RiskManagerIdle /\ PathIdle /\ EngineIdle
    /\ \E value \in CallerConfigs, own_kelly \in BOOLEAN :
           LET h == new_BotConfig(<<>>, DEFAULT_CONFIG)
               default == Len(h)
               g == IF own_kelly THEN new_BotConfig(h, value)
                    ELSE new_BotConfig_with_kelly(h, value,
                                                  h[default].attrs.kelly)
           IN  heap = g /\ roots = <<default, Len(g)>>
    /\ sweep = [ status |-> "idle" ]
    /\ last = [ op |-> "import" ]

\* sweep_kelly_fractions(fractions, win_rate, avg_edge, config) is called,
\* up to the loop.
SweepCall ==
    \E fractions \in FractionLists, win_rate \in StrategyWinRates,
       avg_edge \in StrategyEdges,
       config \in {None} \cup { Ref(roots[r]) : r \in DOMAIN roots } :
        /\ sweep.status = "idle"
        /\ sweep' = [ cfg |-> config_or_default(config),
                      fractions |-> fractions, win_rate |-> win_rate,
                      avg_edge |-> avg_edge, results |-> <<>>,
                      status |-> "running" ]
        /\ last' = [ op |-> "sweep_kelly_fractions", fractions |-> fractions,
                     config |-> config ]
        /\ UNCHANGED <<rm_vars, path_vars, engine_vars, heap, roots>>

\* One pass of the loop: the clone, the override and the simulation, which
\* either appends its result or raises out of the sweep.
SweepIteration ==
    /\ sweep.status = "running"
    /\ Len(sweep.results) < Len(sweep.fractions)
    /\ LET frac == sweep.fractions[Len(sweep.results) + 1]
           cloned == copy(heap, sweep.cfg)
           c == cloned.addr
           h == set_base_fraction(cloned.heap, c, frac)
           result == run_simulation(sweep.win_rate, sweep.avg_edge,
                                    config_value(h, c))
       IN  /\ heap' = h
           /\ sweep' = IF result.exception # ""
                       THEN [sweep EXCEPT !.status = "raised"]
                       ELSE [sweep EXCEPT !.results = Append(@, result)]
    /\ UNCHANGED <<rm_vars, path_vars, engine_vars, roots, last>>

\* The loop is exhausted and the results are returned.
SweepReturn ==
    /\ sweep.status = "running"
    /\ Len(sweep.results) = Len(sweep.fractions)
    /\ sweep' = [sweep EXCEPT !.status = "returned"]
    /\ UNCHANGED <<rm_vars, path_vars, engine_vars, heap, roots, last>>

\* No sweep is inside its loop: the caller has the control.
CallerRuns == sweep.status # "running"

\* A caller takes c = cfg.copy() of a configuration it holds.
CopyConfig ==
    \E r \in DOMAIN roots :
        /\ CallerRuns
        /\ Len(roots) < 2 + MaxCopies
        /\ LET cloned == copy(heap, roots[r])
           IN  heap' = cloned.heap /\ roots' = Append(roots, cloned.addr)
        /\ last' = [ op |-> "copy", root |-> r ]
        /\ UNCHANGED <<rm_vars, path_vars, engine_vars, sweep>>

\* The writes a caller makes to a copy: an attribute of the BotConfig, of a
\* sub-configuration, and an item of the edge_tiers dict.
Writes == { "bankroll", "kelly.base_fraction", "kelly.edge_tiers" }

written(h, c, attr) ==
    CASE attr = "bankroll" -> set_bankroll(h, c, Rat(77, 1))
      [] attr = "kelly.base_fraction" -> set_base_fraction(h, c, Rat(1, 1))
      [] attr = "kelly.edge_tiers" ->
             set_edge_tier(h, c, Rat(5, 100), Rat(1, 1))

\* A caller writes to a copy it took.
WriteToCopy ==
    \E r \in DOMAIN roots, attr \in Writes :
        /\ CallerRuns
        /\ r > 2
        /\ heap' = written(heap, roots[r], attr)
        /\ heap' # heap
        /\ last' = [ op |-> "setattr", root |-> r, attr |-> attr ]
        /\ UNCHANGED <<rm_vars, path_vars, engine_vars, roots, sweep>>

SweepNext ==
    SweepCall \/ SweepIteration \/ SweepReturn \/ CopyConfig \/ WriteToCopy

SweepSpec == SweepInit /\ [][SweepNext]_vars

\* The sweep returns in this step.
SweepReturns ==
    sweep.status = "running" /\ sweep'.status = "returned"

\* The configuration run_simulation was handed for candidate frac: the
\* sweep's configuration with that base fraction.
CloneFor(frac) ==
    [config_value(heap, sweep.cfg) EXCEPT !.kelly.base_fraction = frac]

\* C19: a sweep returns one SimulationResult per candidate fraction, in
\* input order, each that of run_simulation on the sweep's configuration
\* with kelly.base_fraction set to the candidate; no step of a sweep changes
\* what a configuration the caller holds reads as (the one passed in and
\* DEFAULT_CONFIG included), and a write to a copy changes what that copy
\* reads as and no other configuration.
C19_SweepClonesConfig ==
    [][ /\ SweepReturns =>
             /\ Len(sweep'.results) = Len(sweep.fractions)
             /\ \A i \in DOMAIN sweep.fractions :
                    sweep'.results[i] =
                        run_simulation(sweep.win_rate, sweep.avg_edge,
                                       CloneFor(sweep.fractions[i]))
        /\ \A r \in DOMAIN roots :
               config_value(heap', roots[r]) # config_value(heap, roots[r])
                   => last'.op = "setattr" /\ last'.root = r
      ]_vars

\* A sweep over two different fractions, neither the base fraction of the
\* configuration passed in, has returned its two results.
C19_Witness ==
    /\ sweep.status = "returned"
    /\ last.op = "sweep_kelly_fractions" /\ last.config # None
    /\ Len(sweep.results) = 2
    /\ sweep.fractions[1] # sweep.fractions[2]
    /\ \A i \in 1..2 :
           sweep.fractions[i]
               # config_value(heap, sweep.cfg).kelly.base_fraction

\* A sweep without a configuration ran on DEFAULT_CONFIG and returned.
C19_WitnessDefault ==
    /\ sweep.status = "returned"
    /\ last.op = "sweep_kelly_fractions" /\ last.config = None
    /\ Len(sweep.results) = 2
    /\ sweep.fractions[1] # Rat(25, 100)

\* A caller wrote to the edge_tiers dict of a copy.
C19_WitnessWrite ==
    /\ last.op = "setattr" /\ last.attr = "kelly.edge_tiers"
    /\ config_value(heap, roots[last.root])
           # config_value(heap, roots[1])

(***************************************************************************)
(* The micro-live engine (src/bot/config.py, src/bot/api_client.py,        *)
(* src/bot/engine.py).                                                     *)
(***************************************************************************)
\* try_place_order calls in one behaviour.
MaxAttempts == 2

ABSOLUTE_MAX_POSITION_USDC == Rat(1, 1)
ABSOLUTE_MAX_DAILY_LOSS_USDC == Rat(1, 1)
ABSOLUTE_MAX_OPEN_ORDERS == 3

\* min of two ints.
min(a, b) == IF a <= b THEN a ELSE b

\* The float nan.  A float of the engine is nan or a rational.
NaN == [ nan |-> TRUE ]

\* a < b, a <= b and -a on floats: every comparison with nan is false.
float_lt(a, b) == a # NaN /\ b # NaN /\ RLt(a, b)
float_le(a, b) == a # NaN /\ b # NaN /\ RLe(a, b)
float_neg(a) == IF a = NaN THEN NaN ELSE RNeg(a)

\* Python's min(a, b) on floats: b when b < a, else a.
float_min(a, b) == IF float_lt(b, a) THEN b ELSE a

\* bot.config.BotConfig(max_position_usdc, max_daily_loss_usdc,
\* max_open_orders) with __post_init__: the caps, then the sign checks.
bot_BotConfig(max_position_usdc, max_daily_loss_usdc, max_open_orders) ==
    LET position == float_min(max_position_usdc, ABSOLUTE_MAX_POSITION_USDC)
        loss == float_min(max_daily_loss_usdc, ABSOLUTE_MAX_DAILY_LOSS_USDC)
        open == min(max_open_orders, ABSOLUTE_MAX_OPEN_ORDERS)
    IN  IF float_le(position, Zero) \/ float_le(loss, Zero) \/ open <= 0
        THEN [ exception |-> "ValueError" ]
        ELSE [ exception |-> "", max_position_usdc |-> position,
               max_daily_loss_usdc |-> loss, max_open_orders |-> open,
               _daily_pnl |-> Zero ]

\* BotConfig.is_kill_switch_active: the kill-switch file exists.
is_kill_switch_active(config) == kill_switch

\* StubBackend.get_open_orders
get_open_orders(client) == SelectSeq(client, LAMBDA o : o.status = "OPEN")

\* Gate 3 of check_gates.
position_gate(config, size_usdc) ==
    float_lt(config.max_position_usdc, size_usdc)

\* Mutant: the parameters are validated before the kill switch is read.
check_gates_params_first(config, client, size_usdc, price) ==
    IF RLe(size_usdc, Zero) \/ RLe(price, Zero) \/ RLe(One, price)
    THEN "REJECT_INVALID_PARAMS"
    ELSE IF is_kill_switch_active(config)
    THEN "REJECT_KILL_SWITCH"
    ELSE IF position_gate(config, size_usdc)
    THEN "REJECT_POSITION_LIMIT"
    ELSE IF float_le(config._daily_pnl, float_neg(config.max_daily_loss_usdc))
    THEN "REJECT_DAILY_LOSS"
    ELSE IF Len(get_open_orders(client)) >= config.max_open_orders
    THEN "REJECT_OPEN_ORDER_LIMIT"
    ELSE "PASS"

\* check_gates: the verdict of the first gate that rejects.
check_gates(config, client, size_usdc, price) ==
    IF is_kill_switch_active(config)
    THEN "REJECT_KILL_SWITCH"
    ELSE IF RLe(size_usdc, Zero) \/ RLe(price, Zero) \/ RLe(One, price)
    THEN "REJECT_INVALID_PARAMS"
    ELSE IF position_gate(config, size_usdc)
    THEN "REJECT_POSITION_LIMIT"
    ELSE IF float_le(config._daily_pnl, float_neg(config.max_daily_loss_usdc))
    THEN "REJECT_DAILY_LOSS"
    ELSE IF Len(get_open_orders(client)) >= config.max_open_orders
    THEN "REJECT_OPEN_ORDER_LIMIT"
    ELSE "PASS"

\* The Order StubBackend.place_order creates; the random order id is
\* modelled by the order's place in the dict.
Order(order_id, market_id, side, price, size_usdc) ==
    [ order_id |-> order_id, market_id |-> market_id, side |-> side,
      price |-> price, size_usdc |-> size_usdc, status |-> "FILLED" ]

\* self.positions[market_id] = Position(...)
with_position(ps, market_id, side, price, size_usdc) ==
    [ m \in DOMAIN ps \cup {market_id} |->
          IF m = market_id
          THEN [ market_id |-> market_id, side |-> side,
                 size_usdc |-> size_usdc, entry_price |-> price ]
          ELSE ps[m] ]

TradeAttempt(market_id, side, price, size_usdc, verdict, order) ==
    [ market_id |-> market_id, side |-> side, price |-> price,
      size_usdc |-> size_usdc, verdict |-> verdict, order |-> order ]

\* Constructor arguments: within the caps, above them and not positive.
MaxPositionArgs == { Rat(1, 1), Rat(5, 1), Rat(0, 1) }
MaxDailyLossArgs == { Rat(1, 2), Rat(1, 1), Rat(-1, 1) }
MaxOpenOrdersArgs == { 0, 1, 5 }

EngineMarkets == { "M1" }
EngineSides == { "BUY" }
EnginePrices == { Rat(0, 1), Rat(1, 2), Rat(1, 1) }
EngineSizes == { Rat(0, 1), Rat(1, 2), Rat(1, 1), Rat(2, 1) }
\* (price, size_usdc) of the orders tried: every size at a valid price, and
\* a size at and above the cap at the prices out of range.
EngineOrderArgs ==
    { a \in EnginePrices \X EngineSizes :
          a[1] = Rat(1, 2) \/ RLe(Rat(1, 1), a[2]) }
PnlAmounts == { Rat(-1, 2), Rat(1, 2) }
\* The running daily P&L the model follows.
PnlFloor == Rat(-1, 1)
PnlCeiling == Rat(1, 2)

\* Engine(config) on a configuration whose construction did not raise; the
\* kill-switch file may be there already.
EngineInit ==
    /\ RiskManagerIdle /\ PathIdle /\ SweepIdle
    /\ engine_config \in
           { c \in { bot_BotConfig(p, l, o) :
                         p \in MaxPositionArgs, l \in MaxDailyLossArgs,
                         o \in MaxOpenOrdersArgs } : c.exception = "" }
    /\ kill_switch \in BOOLEAN
    /\ orders = <<>>
    /\ client_positions = <<>>
    /\ history = <<>>
    /\ last = [ op |-> "Engine" ]

\* Mutant: the order goes to the client whatever the verdict.
TryPlaceOrder_unguarded ==
    \E market_id \in EngineMarkets, side \in EngineSides,
       args \in EngineOrderArgs :
        LET price == args[1]
            size_usdc == args[2]
            verdict == check_gates(engine_config, orders, size_usdc, price)
            order == Order(Len(orders) + 1, market_id, side, price, size_usdc)
        IN  /\ Len(history) < MaxAttempts
            /\ orders' = Append(orders, order)
            /\ client_positions' =
                   with_position(client_positions, market_id, side,
                                 price, size_usdc)
            /\ history' =
                   Append(history,
                          TradeAttempt(market_id, side, price,
                                       size_usdc, verdict, order))
            /\ last' = [ op |-> "try_place_order", price |-> price,
                         size_usdc |-> size_usdc, verdict |-> verdict ]
            /\ UNCHANGED <<rm_vars, path_vars, sweep_vars, kill_switch,
                           engine_config>>

\* Engine.try_place_order
TryPlaceOrder ==
    \E market_id \in EngineMarkets, side \in EngineSides,
       args \in EngineOrderArgs :
        LET price == args[1]
            size_usdc == args[2]
            verdict == check_gates(engine_config, orders, size_usdc, price)
            order == Order(Len(orders) + 1, market_id, side, price, size_usdc)
        IN  /\ Len(history) < MaxAttempts
            /\ IF verdict = "PASS"
               THEN /\ orders' = Append(orders, order)
                    /\ client_positions' =
                           with_position(client_positions, market_id, side,
                                         price, size_usdc)
                    /\ history' =
                           Append(history,
                                  TradeAttempt(market_id, side, price,
                                               size_usdc, verdict, order))
               ELSE /\ UNCHANGED <<orders, client_positions>>
                    /\ history' =
                           Append(history,
                                  TradeAttempt(market_id, side, price,
                                               size_usdc, verdict, None))
            /\ last' = [ op |-> "try_place_order", price |-> price,
                         size_usdc |-> size_usdc, verdict |-> verdict ]
            /\ UNCHANGED <<rm_vars, path_vars, sweep_vars, kill_switch,
                           engine_config>>

\* Mutant: the loss limit compared with < in place of <=.
RecordPnl_strict ==
    \E amount \in PnlAmounts :
        LET pnl == RAdd(engine_config._daily_pnl, amount)
        IN  /\ RLe(PnlFloor, pnl) /\ RLe(pnl, PnlCeiling)
            /\ engine_config' = [engine_config EXCEPT !._daily_pnl = pnl]
            /\ kill_switch' =
                   IF float_lt(pnl,
                               float_neg(engine_config.max_daily_loss_usdc))
                   THEN TRUE ELSE kill_switch
            /\ last' = [ op |-> "record_pnl", amount |-> amount ]
            /\ UNCHANGED <<rm_vars, path_vars, sweep_vars, orders,
                           client_positions, history>>

\* BotConfig.record_pnl
RecordPnl ==
    \E amount \in PnlAmounts :
        LET pnl == RAdd(engine_config._daily_pnl, amount)
        IN  /\ RLe(PnlFloor, pnl) /\ RLe(pnl, PnlCeiling)
            /\ engine_config' = [engine_config EXCEPT !._daily_pnl = pnl]
            /\ kill_switch' =
                   IF float_le(pnl,
                               float_neg(engine_config.max_daily_loss_usdc))
                   THEN TRUE ELSE kill_switch
            /\ last' = [ op |-> "record_pnl", amount |-> amount ]
            /\ UNCHANGED <<rm_vars, path_vars, sweep_vars, orders,
                           client_positions, history>>

\* BotConfig.reset_daily_pnl
EngineResetDailyPnl ==
    /\ engine_config' = [engine_config EXCEPT !._daily_pnl = Zero]
    /\ last' = [ op |-> "reset_daily_pnl" ]
    /\ UNCHANGED <<rm_vars, path_vars, sweep_vars, kill_switch, orders,
                   client_positions, history>>

\* BotConfig.activate_kill_switch, or an operator creating the file.
ActivateKillSwitch ==
    /\ kill_switch' = TRUE
    /\ last' = [ op |-> "activate_kill_switch" ]
    /\ UNCHANGED <<rm_vars, path_vars, sweep_vars, engine_config, orders,
                   client_positions, history>>

\* BotConfig.deactivate_kill_switch, or an operator removing the file.
DeactivateKillSwitch ==
    /\ kill_switch' = FALSE
    /\ last' = [ op |-> "deactivate_kill_switch" ]
    /\ UNCHANGED <<rm_vars, path_vars, sweep_vars, engine_config, orders,
                   client_positions, history>>

\* StubBackend.cancel_all
cancel_all(client) ==
    [ i \in DOMAIN client |->
          IF client[i].status = "OPEN"
          THEN [client[i] EXCEPT !.status = "CANCELLED"] ELSE client[i] ]

\* Engine.emergency_shutdown
EmergencyShutdown ==
    /\ kill_switch' = TRUE
    /\ orders' = cancel_all(orders)
    /\ last' = [ op |-> "emergency_shutdown",
                 result |-> Len(get_open_orders(orders)) ]
    /\ UNCHANGED <<rm_vars, path_vars, sweep_vars, engine_config,
                   client_positions, history>>

\* An order rests on the book: the stub fills every order at once, and the
\* callers that exercise the open-order gate set the status themselves.
OrderRests ==
    \E i \in DOMAIN orders :
        /\ orders[i].status = "FILLED"
        /\ orders' = [orders EXCEPT ![i].status = "OPEN"]
        /\ last' = [ op |-> "status", order_id |-> i ]
        /\ UNCHANGED <<rm_vars, path_vars, sweep_vars, kill_switch,
                       engine_config, client_positions, history>>

\* Engine.status_summary
status_summary ==
    [ kill_switch_active |-> is_kill_switch_active(engine_config),
      daily_pnl |-> engine_config._daily_pnl,
      max_position_usdc |-> engine_config.max_position_usdc,
      max_daily_loss_usdc |-> engine_config.max_daily_loss_usdc,
      open_orders |-> Len(get_open_orders(orders)),
      total_attempts |-> Len(history),
      rejected_attempts |->
          Len(SelectSeq(history, LAMBDA a : a.verdict # "PASS")) ]

EngineNext ==
    \/ TryPlaceOrder
    \/ RecordPnl
    \/ EngineResetDailyPnl
    \/ ActivateKillSwitch
    \/ DeactivateKillSwitch
    \/ EmergencyShutdown
    \/ OrderRests

EngineSpec == EngineInit /\ [][EngineNext]_vars

\* The gates in the order of the claim, each with whether it rejects the
\* call recorded in last' when evaluated in the state the call is made in.
GateRejects ==
    << <<"REJECT_KILL_SWITCH", kill_switch>>,
       <<"REJECT_INVALID_PARAMS",
         \/ RLe(last'.size_usdc, Zero)
         \/ RLe(last'.price, Zero)
         \/ RLe(One, last'.price)>>,
       <<"REJECT_POSITION_LIMIT",
         RLt(engine_config.max_position_usdc, last'.size_usdc)>>,
       <<"REJECT_DAILY_LOSS",
         RLe(engine_config._daily_pnl,
             RNeg(engine_config.max_daily_loss_usdc))>>,
       <<"REJECT_OPEN_ORDER_LIMIT",
         Cardinality({ i \in DOMAIN orders : orders[i].status = "OPEN" })
             >= engine_config.max_open_orders>> >>

\* A try_place_order call is made in this step.
OrderAttempted ==
    last'.op = "try_place_order" /\ Len(history') = Len(history) + 1

\* C20: the verdict of check_gates is that of the first gate, in the order
\* kill switch, parameters, position cap, daily-loss cap, open-order cap,
\* that rejects, and PASS exactly when no gate rejects; a size equal to
\* max_position_usdc is not rejected by the position cap.
C20_FirstFailingGate ==
    [][ OrderAttempted =>
          /\ last'.verdict = "PASS"
                 <=> \A g \in DOMAIN GateRejects : ~GateRejects[g][2]
          /\ \A g \in DOMAIN GateRejects :
                 last'.verdict = GateRejects[g][1]
                     <=> /\ GateRejects[g][2]
                         /\ \A f \in 1..(g - 1) : ~GateRejects[f][2]
          /\ last'.size_usdc = engine_config.max_position_usdc
                 => last'.verdict # "REJECT_POSITION_LIMIT"
      ]_vars

\* The last attempt.
LastAttempt == history[Len(history)]

\* An order was rejected for the daily loss while the open orders were at
\* their cap too: two gates rejected and the earlier one gave the verdict.
C20_Witness ==
    /\ last.op = "try_place_order"
    /\ last.verdict = "REJECT_DAILY_LOSS"
    /\ Len(get_open_orders(orders)) >= engine_config.max_open_orders

\* An order of exactly max_position_usdc passed.
C20_WitnessAtCap ==
    /\ last.op = "try_place_order"
    /\ last.verdict = "PASS"
    /\ last.size_usdc = engine_config.max_position_usdc
    /\ LastAttempt.order # None

\* Bad parameters under an active kill switch: the kill switch answers.
C20_WitnessKillFirst ==
    /\ last.op = "try_place_order"
    /\ last.verdict = "REJECT_KILL_SWITCH"
    /\ RLe(last.size_usdc, Zero)

(***************************************************************************)
(* The daily-loss kill switch of the engine.                               *)
(***************************************************************************)
\* A record_pnl call is made in this step.
PnlRecorded == last'.op = "record_pnl" /\ engine_config' # engine_config

\* The cumulative daily P&L of a configuration is at or below its limit.
AtOrBelowLossLimit(config) ==
    RLe(config._daily_pnl, RNeg(config.max_daily_loss_usdc))

\* C21: a record_pnl call that leaves the cumulative _daily_pnl at or below
\* -max_daily_loss_usdc leaves the kill switch active, and one that leaves
\* it above the limit does not change the kill switch; while the kill switch
\* is active every try_place_order is rejected with REJECT_KILL_SWITCH and
\* places nothing; and an active kill switch is cleared by
\* deactivate_kill_switch only, never by reset_daily_pnl.
C21_LossLimitTripsKillSwitch ==
    [][ /\ PnlRecorded =>
             /\ AtOrBelowLossLimit(engine_config') => kill_switch'
             /\ ~AtOrBelowLossLimit(engine_config')
                    => kill_switch' = kill_switch
        /\ kill_switch /\ OrderAttempted =>
             /\ last'.verdict = "REJECT_KILL_SWITCH"
             /\ orders' = orders
        /\ kill_switch /\ ~kill_switch'
             => last'.op = "deactivate_kill_switch"
      ]_vars

\* After an order had passed, a loss took the daily P&L to exactly the
\* limit and the kill switch is active.
C21_Witness ==
    /\ last.op = "record_pnl"
    /\ engine_config._daily_pnl = RNeg(engine_config.max_daily_loss_usdc)
    /\ kill_switch
    /\ Len(history) = 1 /\ history[1].verdict = "PASS"

\* With the daily P&L at zero (as after reset_daily_pnl) and the kill switch
\* active, an order with valid parameters was rejected for the kill switch
\* after an earlier one had passed.
C21_WitnessResetKeepsHalt ==
    /\ last.op = "try_place_order"
    /\ last.verdict = "REJECT_KILL_SWITCH"
    /\ engine_config._daily_pnl = Zero
    /\ last.price = Rat(1, 2) /\ last.size_usdc = Rat(1, 2)
    /\ Len(history) = 2 /\ history[1].verdict = "PASS"

(***************************************************************************)
(* try_place_order is fail-closed.                                         *)
(***************************************************************************)
\* A try_place_order call is made in this step: every step sets last to the
\* call it makes.
OrderCalled == last'.op = "try_place_order"

\* The attempt the call of this step appends.
NewAttempt == history'[Len(history')]

\* C22: in every try_place_order call the client is handed an order exactly
\* when the verdict is PASS, and then the attempt carries that order; on a
\* rejection the attempt's order is None and the client's orders and
\* positions are unchanged; the call appends exactly one attempt, of its
\* verdict, so total_attempts grows by one and rejected_attempts by one
\* exactly when the verdict is not PASS; no other operation touches history.
C22_FailClosed ==
    [][ /\ OrderCalled =>
             /\ history' = Append(history, NewAttempt)
             /\ NewAttempt.verdict = last'.verdict
             /\ NewAttempt.price = last'.price
             /\ NewAttempt.size_usdc = last'.size_usdc
             /\ last'.verdict = "PASS" <=> orders' # orders
             /\ last'.verdict = "PASS" =>
                    /\ orders' = Append(orders, NewAttempt.order)
                    /\ NewAttempt.order.size_usdc = last'.size_usdc
                    /\ NewAttempt.order.price = last'.price
             /\ last'.verdict # "PASS" =>
                    /\ NewAttempt.order = None
                    /\ orders' = orders
                    /\ client_positions' = client_positions
             /\ status_summary'.total_attempts
                    = status_summary.total_attempts + 1
             /\ status_summary'.rejected_attempts
                    = status_summary.rejected_attempts
                          + (IF last'.verdict = "PASS" THEN 0 ELSE 1)
        /\ ~OrderCalled => history' = history
      ]_vars

\* Two calls, one passed and one rejected: one order at the client, two
\* attempts in history, one of them counted as rejected.
C22_Witness ==
    /\ last.op = "try_place_order"
    /\ Len(history) = 2
    /\ history[1].verdict = "PASS" /\ history[1].order = orders[1]
    /\ history[2].verdict # "PASS" /\ history[2].order = None
    /\ Len(orders) = 1
    /\ status_summary.total_attempts = 2
    /\ status_summary.rejected_attempts = 1

(***************************************************************************)
(* The hard caps of bot.config.BotConfig: a configuration is constructed   *)
(* from caller input, and orders are tried on an engine built on it.       *)
(***************************************************************************)
\* Constructor arguments: within the caps, at and above them, not positive,
\* and, for the floats, nan.
CapPositionArgs ==
    { Rat(1, 2), Rat(1, 1), Rat(999, 1), Rat(0, 1), Rat(-1, 1), NaN }
CapDailyLossArgs == { Rat(1, 4), Rat(1, 1), Rat(50, 1), Rat(-1, 1), NaN }
CapOpenOrdersArgs == { 0, 2, 3, 20 }

\* The module is imported; no configuration and no engine yet.
CapInit ==
    /\ RiskManagerIdle /\ PathIdle /\ SweepIdle /\ EngineIdle
    /\ last = [ op |-> "import" ]

\* cfg = BotConfig(max_position_usdc=p, max_daily_loss_usdc=l,
\* max_open_orders=o); Engine(cfg), unless the constructor raised.
ConstructEngine ==
    \E p \in CapPositionArgs, l \in CapDailyLossArgs,
       o \in CapOpenOrdersArgs :
        LET cfg == bot_BotConfig(p, l, o)
        IN  /\ engine_config = None
            /\ engine_config' = IF cfg.exception = "" THEN cfg ELSE None
            /\ last' = [ op |-> "BotConfig", max_position_usdc |-> p,
                         max_daily_loss_usdc |-> l, max_open_orders |-> o,
                         exception |-> cfg.exception ]
            /\ UNCHANGED <<rm_vars, path_vars, sweep_vars, kill_switch,
                           orders, client_positions, history>>

\* try_place_order on the engine built.
CapTryPlaceOrder == engine_config # None /\ TryPlaceOrder

CapNext == ConstructEngine \/ CapTryPlaceOrder

CapSpec == CapInit /\ [][CapNext]_vars

\* The constructor call recorded in last was handed a non-positive limit.
NonPositiveArg ==
    \/ float_le(last.max_position_usdc, Zero)
    \/ float_le(last.max_daily_loss_usdc, Zero)
    \/ last.max_open_orders <= 0

\* The limits of the configuration built are within the absolute caps.
WithinCaps ==
    /\ float_le(engine_config.max_position_usdc, ABSOLUTE_MAX_POSITION_USDC)
    /\ float_le(engine_config.max_daily_loss_usdc,
                ABSOLUTE_MAX_DAILY_LOSS_USDC)
    /\ engine_config.max_open_orders <= ABSOLUTE_MAX_OPEN_ORDERS

\* The constructor arguments that were within the caps are the limits of
\* the configuration built.
WithinCapsPreserved ==
    /\ float_le(last.max_position_usdc, ABSOLUTE_MAX_POSITION_USDC)
           => engine_config.max_position_usdc = last.max_position_usdc
    /\ float_le(last.max_daily_loss_usdc, ABSOLUTE_MAX_DAILY_LOSS_USDC)
           => engine_config.max_daily_loss_usdc = last.max_daily_loss_usdc
    /\ last.max_open_orders <= ABSOLUTE_MAX_OPEN_ORDERS
           => engine_config.max_open_orders = last.max_open_orders

\* No order above 1.00 is at the client, and every attempt above 1.00 was
\* rejected, for the position limit when its price was valid.
NoOrderAboveCap ==
    /\ \A i \in DOMAIN orders :
           ~RLt(ABSOLUTE_MAX_POSITION_USDC, orders[i].size_usdc)
    /\ \A i \in DOMAIN history :
           RLt(ABSOLUTE_MAX_POSITION_USDC, history[i].size_usdc) =>
               /\ history[i].verdict # "PASS"
               /\ RLt(Zero, history[i].price) /\ RLt(history[i].price, One)
                      => history[i].verdict = "REJECT_POSITION_LIMIT"

\* C23 as claimed: whatever the constructor is handed, a configuration it
\* builds has its three limits within the absolute caps, limits handed
\* within the caps are preserved, a non-positive limit raises ValueError,
\* and no order above 1.00 is ever placed through try_place_order.
C23_HardCaps ==
    /\ engine_config # None => WithinCaps
    /\ last.op = "BotConfig" =>
           /\ NonPositiveArg <=> last.exception = "ValueError"
           /\ last.exception = "" => WithinCapsPreserved
    /\ NoOrderAboveCap

\* The configuration was built from numbers: no limit handed in was nan.
BuiltFromNumbers ==
    /\ engine_config # None
    /\ engine_config.max_position_usdc # NaN
    /\ engine_config.max_daily_loss_usdc # NaN

\* C23 for limits that are numbers: a configuration built without nan has
\* its limits within the caps and places no order above 1.00.
C23_HardCapsForNumbers ==
    BuiltFromNumbers => WithinCaps /\ NoOrderAboveCap

\* An order of 2.00 was placed on a configuration built with
\* max_position_usdc = nan.
C23_WitnessNaNBypass ==
    /\ engine_config # None
    /\ engine_config.max_position_usdc = NaN
    /\ \E i \in DOMAIN orders : orders[i].size_usdc = Rat(2, 1)

\* An order of 2.00 was rejected on a configuration built with
\* max_position_usdc = 999, clamped to 1.00.
C23_WitnessClamped ==
    /\ engine_config # None
    /\ engine_config.max_position_usdc = ABSOLUTE_MAX_POSITION_USDC
    /\ last.op = "try_place_order" /\ last.size_usdc = Rat(2, 1)
    /\ last.verdict = "REJECT_POSITION_LIMIT"

(***************************************************************************)
(* The raw Kelly fraction of simulate_path against classic_kelly.          *)
(***************************************************************************)
\* win_rate and avg_edge arguments, in and out of (0, 1).
RawWinRates ==
    { Rat(-1, 5), Rat(0, 1), Rat(3, 10), Rat(1, 2), Rat(58, 100),
      Rat(3, 4), Rat(1, 1), Rat(3, 2) }
RawEdges ==
    { Rat(-1, 2), Rat(0, 1), Rat(8, 100), Rat(1, 4), Rat(1, 2), Rat(3, 5) }

\* The sizing of one trade of simulate_path(win_rate=w, avg_edge=e, ...),
\* next to classic_kelly on the same win rate and odds.
RawFraction ==
    \E w \in RawWinRates, e \in RawEdges :
        LET args == [ win_rate |-> w, avg_edge |-> e ]
        IN  /\ last.op = "__init__"
            /\ last' = [ op |-> "simulate_path.raw_f", win_rate |-> w,
                         avg_edge |-> e,
                         market_prob |-> path_market_prob(args),
                         raw_f |-> path_raw_f(args),
                         classic |->
                             classic_kelly(w,
                                 RDiv(One, path_market_prob(args))) ]
            /\ UNCHANGED <<bankroll, peak_equity, positions, daily_pnl,
                           closes, rm_config, mc_result, other_vars>>

RawKellySpec == Init /\ [][RawFraction]_vars

IsRawFraction == last.op = "simulate_path.raw_f"

\* C24 as claimed: for every win_rate and avg_edge the raw fraction of
\* simulate_path equals classic_kelly(win_rate, 1 / market_prob), the
\* inputs win_rate <= 0 and win_rate >= 1 included.
C24_RawKellyAgrees ==
    IsRawFraction => last.raw_f = last.classic

\* C24 for win_rate < 1: the two fractions are equal, and 0 for
\* win_rate <= 0.
C24_RawKellyAgreesBelowOne ==
    IsRawFraction /\ RLt(last.win_rate, One) =>
        /\ last.raw_f = last.classic
        /\ RLe(last.win_rate, Zero) => last.raw_f = Zero

\* With win_rate = 1 and avg_edge = 1/2 simulate_path sizes with the whole
\* Kelly fraction 1 where classic_kelly answers 0.
C24_WitnessCertainWin ==
    /\ IsRawFraction
    /\ last.win_rate = One /\ last.avg_edge = Rat(1, 2)
    /\ last.raw_f = One /\ last.classic = Zero

\* Inside (0, 1) both give the positive fraction 0.16 for win_rate 0.58
\* and avg_edge 0.08.
C24_WitnessAgree ==
    /\ IsRawFraction
    /\ last.win_rate = Rat(58, 100) /\ last.avg_edge = Rat(8, 100)
    /\ last.raw_f = last.classic /\ last.raw_f = Rat(4, 25)

(***************************************************************************)
(* open_position is unconditional.                                         *)
(***************************************************************************)
\* What the manager answers in the current state to a trade with an edge.
CurrentAnswer ==
    evaluate_trade(Rat(65, 100), Rat(62, 100), "", "").action

\* C25: open_position can be called in every state, and a call appends the
\* position it is handed to the open positions, whose count grows by
\* exactly 1, whatever the manager would answer to a trade and whatever is
\* open already; it leaves bankroll, peak_equity, daily_pnl, the
\* configuration and the cached simulation unchanged.
C25_OpenAppendsUnconditionally ==
    /\ [](Len(positions) < MaxOpen => ENABLED OpenPosition)
    /\ [][last'.op = "open_position" =>
             /\ positions' = Append(positions, last'.position)
             /\ Len(positions') = Len(positions) + 1
             /\ bankroll' = bankroll
             /\ peak_equity' = peak_equity
             /\ daily_pnl' = daily_pnl
             /\ rm_config' = rm_config
             /\ mc_result' = mc_result]_vars

\* A position was opened while the manager answers HALT, with the open
\* count already at max_concurrent_positions and its market_id already open.
C25_Witness ==
    /\ last.op = "open_position"
    /\ CurrentAnswer = "HALT"
    /\ Len(positions) = DEFAULT_CONFIG.var.max_concurrent_positions + 1
    /\ \E i \in 1..(Len(positions) - 1) :
           positions[i].market_id = last.position.market_id

\* A position was opened while the manager answers SKIP.
C25_WitnessSkip ==
    /\ last.op = "open_position"
    /\ CurrentAnswer = "SKIP"
    /\ Len(positions) > 1

(***************************************************************************)
(* The peak bounds the bankroll.                                           *)
(***************************************************************************)
\* (peak_equity - bankroll) / peak_equity, the drawdown check_drawdown
\* computes for evaluate_trade.
DrawdownSeen == RDiv(RSub(peak_equity, bankroll), peak_equity)

\* C26: in every state reached from construction by evaluate_trade,
\* open_position, close_position and reset_daily_pnl, peak_equity >=
\* bankroll and no step lowers peak_equity; so, the manager being built
\* with a positive bankroll, peak_equity stays > 0 (the peak_equity <= 0
\* branch of check_drawdown is not taken) and the drawdown fraction
\* evaluate_trade sees is >= 0.
C26_PeakBoundsBankroll ==
    /\ [](/\ RLe(bankroll, peak_equity)
          /\ RLt(Zero, peak_equity)
          /\ RLe(Zero, DrawdownSeen))
    /\ [][RLe(peak_equity, peak_equity')]_vars

\* A winning close raised the peak above the starting bankroll and a later
\* losing close left the bankroll under it.
C26_Witness ==
    /\ last.op = "close_position" /\ last.found
    /\ RLt(rm_config.bankroll, peak_equity)
    /\ RLt(bankroll, peak_equity)

\* A close just raised the peak.
C26_WitnessRaised ==
    /\ last.op = "close_position" /\ last.found
    /\ RLt(rm_config.bankroll, peak_equity)
    /\ bankroll = peak_equity

(***************************************************************************)
(* evaluate_trade is a query.                                              *)
(***************************************************************************)
\* The decision the manager gives now to the arguments of the last call.
AskedAgain == evaluate_trade(last.prob_win, last.market_prob, "", "")

\* C27: an evaluate_trade call, whatever its arguments and its outcome,
\* leaves bankroll, peak_equity, daily_pnl and the open positions as they
\* were (the hypothetical position of the VaR check is not kept), and the
\* same call made again directly after it returns the same decision.
C27_EvaluateTradeIsPure ==
    /\ [](IsEval => AskedAgain = last.decision)
    /\ [][last'.op = "evaluate_trade" =>
             /\ bankroll' = bankroll
             /\ peak_equity' = peak_equity
             /\ daily_pnl' = daily_pnl
             /\ positions' = positions]_vars

\* A call that went through the VaR check with the hypothetical position
\* beside an open one, and was skipped on it.
C27_Witness ==
    /\ IsEval
    /\ last.decision.action = "SKIP"
    /\ RLt(Zero, last.decision.kelly.bet_size)
    /\ Len(positions) >= 1

\* A call that answered TRADE with a position open.
C27_WitnessTrade ==
    IsEval /\ last.decision.action = "TRADE" /\ Len(positions) >= 1

\* A call that answered HALT with a position open.
C27_WitnessHalt ==
    IsEval /\ last.decision.action = "HALT" /\ Len(positions) >= 1

(***************************************************************************)
(* A caller that opens only what evaluate_trade approved.                  *)
(***************************************************************************)
\* open_position called directly after evaluate_trade answered TRADE, with
\* the position that call sized, under the market_id the caller trades it.
OpenTraded ==
    \E market_id \in MarketIds :
        /\ last.op = "evaluate_trade"
        /\ last.decision.action = "TRADE"
        /\ Len(positions) < MaxOpen
        /\ LET position == hypo_pos(last.decision.kelly, last.market_prob,
                                    market_id, "")
           IN  /\ positions' = Append(positions, position)
               /\ last' = [ op |-> "open_position", position |-> position ]
        /\ UNCHANGED <<bankroll, peak_equity, daily_pnl, closes,
                     rm_config, mc_result, other_vars>>

\* The bankrolls this caller's manager is built with.
TradedBankrolls == { Rat(30, 1), Rat(306, 1) }

TradedInit == Init /\ rm_config.bankroll \in TradedBankrolls

\* The trades this caller asks about: an edge at either market price.
TradedProbWins == { Rat(65, 100) }
TradedMarketProbs == { Rat(40, 100), Rat(62, 100) }

TradedEvaluate ==
    /\ EvaluateTrade
    /\ last'.prob_win \in TradedProbWins
    /\ last'.market_prob \in TradedMarketProbs

TradedNext ==
    \/ TradedEvaluate
    \/ OpenTraded
    \/ ClosePosition
    \/ ResetDailyPnl

TradedSpec == TradedInit /\ [][TradedNext]_vars

\* C28: when positions are opened only directly after evaluate_trade
\* answered TRADE for them, one per TRADE, with close_position and
\* reset_daily_pnl called at will, the number of open positions is
\* <= max_concurrent_positions in every reachable state.
C28_OpenCountWithinCap ==
    Len(positions) <= VaRConfig.max_concurrent_positions

\* The approved position that filled the book up to the cap was opened.
C28_Witness ==
    /\ last.op = "open_position"
    /\ Len(positions) = VaRConfig.max_concurrent_positions

\* With the book at the cap, evaluate_trade skips a sized bet on the
\* position count.
C28_WitnessCapSkips ==
    /\ IsEval
    /\ Len(positions) = VaRConfig.max_concurrent_positions
    /\ last.decision.action = "SKIP"
    /\ RLt(Zero, last.decision.kelly.bet_size)
    /\ last.decision.var.breaches = <<"concurrent_positions">>

\* A position was opened after a close.
C28_WitnessAfterClose ==
    last.op = "open_position" /\ closes > 0

(***************************************************************************)
(* Conservation of the realised P&L.                                       *)
(***************************************************************************)
\* The P&L the step realises: that of the first open position with the
\* closed market_id in a close_position call, nothing in any other step.
RealisedInStep ==
    IF ClosedKnown
    THEN ClaimedPnl(positions[ClosedIndex], last'.settlement_price)
    ELSE Zero

\* C29: the manager starts with bankroll = the configured bankroll and
\* daily_pnl = 0; every step adds the P&L it realises to the bankroll, and
\* to daily_pnl unless the step is reset_daily_pnl, which sets daily_pnl to
\* 0.  So bankroll is the starting bankroll plus the P&L of all closes,
\* daily_pnl the P&L of the closes since the last reset, and
\* bankroll - daily_pnl is changed by reset_daily_pnl only.
C29_PnlConservation ==
    /\ bankroll = rm_config.bankroll
    /\ daily_pnl = Zero
    /\ [][/\ rm_config' = rm_config
          /\ bankroll' = RAdd(bankroll, RealisedInStep)
          /\ daily_pnl' = IF last'.op = "reset_daily_pnl" THEN Zero
                          ELSE RAdd(daily_pnl, RealisedInStep)
          /\ last'.op # "reset_daily_pnl" =>
                 RSub(bankroll', daily_pnl') = RSub(bankroll, daily_pnl)]_vars

\* A second close booked its P&L after a reset that followed the first:
\* daily_pnl holds the second P&L only, the bankroll both.
C29_Witness ==
    /\ last.op = "close_position" /\ last.found
    /\ closes = 2
    /\ daily_pnl # Zero
    /\ bankroll # rm_config.bankroll
    /\ RSub(bankroll, daily_pnl) # rm_config.bankroll

\* Two closes without a reset: bankroll - daily_pnl is the starting bankroll.
C29_WitnessNoReset ==
    /\ last.op = "close_position" /\ last.found
    /\ closes = 2
    /\ daily_pnl # Zero
    /\ RSub(bankroll, daily_pnl) = rm_config.bankroll

(***************************************************************************)
(* The drawdown halt stays until a winning close.                          *)
(***************************************************************************)
\* peak_ > 0 and (peak_ - bankroll_) / peak_ >= max_drawdown_fraction
BreachedAt(bankroll_, peak_) ==
    /\ RLt(Zero, peak_)
    /\ RLe(RMul(VaRConfig.max_drawdown_fraction, peak_),
           RSub(peak_, bankroll_))

\* The step is a close_position call that realises a P&L > 0.
PositiveClose == ClosedKnown /\ RLt(Zero, RealisedInStep)

\* C30: a drawdown halt is sticky.  evaluate_trade answers HALT with
\* drawdown_halt only while the drawdown is at or over the limit; while it
\* is, no evaluate_trade call returns TRADE or SKIP; and a step that is not
\* a close_position realising a positive P&L (reset_daily_pnl,
\* open_position, a close with a zero or negative P&L, evaluate_trade)
\* leaves it at or over the limit.
C30_DrawdownHaltSticky ==
    /\ [](/\ (IsEval /\ last.decision.drawdown_halt) => DrawdownBreached
          /\ (IsEval /\ DrawdownBreached) =>
                 last.decision.action \notin {"TRADE", "SKIP"})
    /\ [][(DrawdownBreached /\ ~PositiveClose) =>
             BreachedAt(bankroll', peak_equity')]_vars

\* evaluate_trade answered HALT with drawdown_halt with a position open.
C30_Witness ==
    /\ IsEval
    /\ last.decision.action = "HALT"
    /\ last.decision.drawdown_halt
    /\ Len(positions) >= 1

\* In a drawdown, on a day whose P&L was reset, the halt is the daily-loss
\* one again after a further losing close.
C30_WitnessStillHalted ==
    /\ IsEval
    /\ DrawdownBreached
    /\ closes = 2
    /\ last.decision.action = "HALT"
    /\ last.decision.daily_loss_halt

\* A winning close brought the bankroll back within the limit under the
\* peak, and evaluate_trade answers TRADE.
C30_WitnessCleared ==
    /\ IsEval
    /\ last.decision.action = "TRADE"
    /\ closes = 2
    /\ peak_equity = rm_config.bankroll
    /\ RLt(bankroll, peak_equity)
    /\ RLt(Zero, daily_pnl)

====
